---- MODULE Spec2Model ----
(***************************************************************************)
(* Verification model of the Habitat supervisor core:                      *)
(*   - the reconciler   Manager::specs_to_operations   (sup/manager/mod.rs)*)
(*   - the per-service  Supervisor                     (service/supervisor)*)
(*   - the process lock obtain_process_lock            (sup/manager/mod.rs)*)
(*   - the shutdown part of Manager::run               (sup/manager/mod.rs)*)
(* Each part has its own specification (SpecOps, SpecSup, SpecLock,        *)
(* SpecRun); the variables of the other parts stay at their initial value. *)
(***************************************************************************)
EXTENDS Integers, Sequences, FiniteSets, Bags, TLC

VARIABLES
    \* ---- reconciler (specs_to_operations) ----
    running,        \* currently_running_specs: set of ServiceSpec
    on_disk,        \* on_disk_specs: set of ServiceSpec
    operations,     \* the returned Vec<ServiceOperation>, as a set
    rec_pc,         \* "input" before the call, "done" after it
    \* ---- Supervisor (one service) ----
    sup_state,      \* Supervisor.state: "Down" | "Up"
    sup_pid,        \* Supervisor.pid: None or a Pid
    pid_file,       \* content of Supervisor.pid_file: Absent or a string of digits
    live_services,  \* Launcher ServiceTable.live_services: set of Pids
    next_pid,       \* the Pid the OS gives to the next spawned process
    sup_last,       \* what the last Supervisor call was and how it ended
    \* ---- process lock ----
    lock_file,      \* proc_lock_file: None or Some([owner, content])
    lk_pc,          \* per starter: position inside Manager::load / run
    lk_read,        \* per starter: the pid read_process_lock returned
    lk_alive,       \* per pid: is the process named by that pid alive
    lk_respawns,    \* per starter: times its Launcher respawned the Supervisor
    \* ---- Manager::run ----
    m_pc,           \* position of Manager::run
    m_services,     \* ManagerState.services (keys of the live map)
    m_futures,      \* bag of the futures on the Tokio runtime not yet completed
    m_mode,         \* shutdown_mode the main loop broke out with
    m_lock,         \* TRUE while the process lock file of this Manager exists
    m_persisted,    \* TRUE once butterfly.persist_data() ran
    m_live_at_break,\* services in the live map when the loop broke
    m_reload,       \* specs_to_reload: spec file names, in push order
    m_stopped,      \* services whose stop completed after the loop broke
    \* ---- ServiceUpdater (one service group) ----
    u_state,        \* the UpdaterState of the group, "absent" if it has none
    u_worker,       \* the Worker behind the Receiver the state holds, or None
    u_census,       \* what the CensusRing says about the group
    u_last,         \* what the last ServiceUpdater call was and how it ended
    u_spawns,       \* Workers started so far
    \* ---- SpecDir ----
    sd_files,       \* the spec directory: what each *.spec entry is
    sd_result,      \* None, or what SpecDir::specs() returned
    \* ---- SpecWatcher ----
    sw_channel,     \* the events queued on SpecWatcher.channel
    sw_last,        \* what the last has_events() call found and returned
    sw_since,       \* events the watcher sent since the last has_events() call
    \* ---- Launcher Server ----
    ln_pc,          \* position of the Launcher: inside tick, reloading, exited
    ln_exit,        \* None, or the exit code server::run returned
    ln_sup,         \* Server.supervisor: "running" or its exit status
    ln_rx,          \* messages of the Supervisor waiting on Server.rx
    ln_table,       \* ServiceTable.live_services: the Pids it holds
    ln_proc,        \* per Pid: the state of the service process
    ln_reply,       \* the message dispatched last and the reply sent for it
    ln_spawns,      \* Supervisors spawned by reload()
    ln_after,       \* exit statuses of the Supervisors reload() replaced
    \* ---- SpecWatcherDelay ----
    wd_env,         \* HAB_SPEC_WATCHER_DELAY_MS: None when unset, or its text
    wd_delay,       \* None, or the delay in ms configured_value() gave
    \* ---- Launcher: stopping services ----
    st_launcher,    \* "running" until the Launcher has shut down
    st_now,         \* SteadyTime::now()
    st_timeout,     \* per Pid: Process.shutdown_timeout
    st_proc,        \* per Pid: is the service process running or exited
    st_killed,      \* per Pid: None, or the StoppingService kill() returned
    st_shutting_down, \* ServiceTable.shutting_down: the Pids it holds
    st_selected,    \* Pids a pass over shutting_down put into to_kill
    st_hard_kills,  \* per Pid: SIGKILLs sent to the service
    \* ---- a service group under the Rolling strategy ----
    ro_topology,    \* the Topology of the service: Standalone or Leader
    ro_leader,      \* the member census_group.leader() names
    ro_state,       \* member -> its RollingState in its ServiceUpdater
    ro_pkg,         \* member -> the release its service runs (CensusMember.pkg)
    ro_rx,          \* member -> the Receiver its state holds and its Worker
    ro_suit,        \* member -> the suitability it gave to the update election
    ro_update_leader, \* None, or the member census_group.update_leader() names
    ro_depot,       \* the newest release in the channel
    \* ---- the main loop's ticks over a spec directory ----
    t_pc,           \* where the main loop is in its tick
    t_disk,         \* the specs the files of the spec directory hold
    t_events,       \* whether the SpecWatcher has events to report
    t_services,     \* ManagerState.services, as specs
    t_futures,      \* the stop and restart futures spawned and not resolved
    t_reload,       \* specs_to_reload: spec file names, in push order
    t_changes,      \* writes to the spec directory so far
    t_updates,      \* restarts the ServiceUpdater has asked for so far
    t_failed,       \* whether an add_service has failed to load its service
    t_updater       \* the services whose group has a ServiceUpdater entry

recVars  == <<running, on_disk, operations, rec_pc>>
supVars  == <<sup_state, sup_pid, pid_file, live_services, next_pid, sup_last>>
lockVars == <<lock_file, lk_pc, lk_read, lk_alive, lk_respawns>>
runVars  == <<m_pc, m_services, m_futures, m_mode, m_lock, m_persisted,
              m_live_at_break, m_reload, m_stopped>>
updVars  == <<u_state, u_worker, u_census, u_last, u_spawns>>
dirVars  == <<sd_files, sd_result>>
watchVars == <<sw_channel, sw_last, sw_since>>
lnVars == <<ln_pc, ln_exit, ln_sup, ln_rx, ln_table, ln_proc, ln_reply,
            ln_spawns, ln_after>>
delayVars == <<wd_env, wd_delay>>
stopVars == <<st_launcher, st_now, st_timeout, st_proc, st_killed, st_shutting_down, st_selected, st_hard_kills>>
rollVars == <<ro_topology, ro_leader, ro_state, ro_pkg, ro_rx, ro_suit, ro_update_leader, ro_depot>>
tickVars == <<t_pc, t_disk, t_events, t_services, t_futures, t_reload, t_changes, t_updates, t_failed, t_updater>>
extVars  == <<updVars, dirVars, watchVars, lnVars, delayVars, stopVars, rollVars, tickVars>>
updOthers == <<recVars, supVars, lockVars, runVars, dirVars, watchVars, lnVars, delayVars, stopVars, rollVars, tickVars>>
dirOthers == <<recVars, supVars, lockVars, runVars, updVars, watchVars, lnVars, delayVars, stopVars, rollVars, tickVars>>
watchOthers == <<recVars, supVars, lockVars, runVars, updVars, dirVars, lnVars, delayVars, stopVars, rollVars, tickVars>>
lnOthers == <<recVars, supVars, lockVars, runVars, updVars, dirVars, watchVars, delayVars, stopVars, rollVars, tickVars>>
delayOthers == <<recVars, supVars, lockVars, runVars, updVars, dirVars, watchVars, lnVars, stopVars, rollVars, tickVars>>
stopOthers == <<recVars, supVars, lockVars, runVars, updVars, dirVars, watchVars, lnVars, delayVars, rollVars, tickVars>>
rollOthers == <<recVars, supVars, lockVars, runVars, updVars, dirVars, watchVars, lnVars, delayVars, stopVars, tickVars>>
tickOthers == <<recVars, supVars, lockVars, runVars, updVars, dirVars, watchVars, lnVars, delayVars, stopVars, rollVars>>
vars     == <<recVars, supVars, lockVars, runVars, extVars>>

\* Option<T>: None is the empty sequence, Some(x) the one-element sequence
None == <<>>

Some(x) == <<x>>

Unwrap(opt) == opt[1]

(***************************************************************************)
(* Bounds                                                                  *)
(***************************************************************************)
MaxVersion == 1

\* the largest Pid the OS hands out, and how many spawns are followed
MaxPid == 12

MaxSpawns == 3

\* Launchers started on one state directory, and respawns followed for each
MaxStarters == 2

MaxRespawns == 1

\* futures the main loop of Manager::run spawns before it breaks
MaxFutures == 1

\* update Workers one ServiceUpdater starts for one service group
MaxWorkers == 3

\* filesystem events waiting on the SpecWatcher channel
MaxEvents == 3

\* characters of the HAB_SPEC_WATCHER_DELAY_MS value
MaxDelayChars == 5

\* service processes one Launcher spawns
MaxServices == 2

\* messages of the Supervisor waiting on the Launcher's receiver
MaxMsgs == 2

\* ticks of the clock the Launcher reads its deadlines from
MaxTime == 3

(***************************************************************************)
(* ServiceSpec, ServiceOperation                                           *)
(***************************************************************************)
PkgNames == {"foo", "bar"}

\* PackageIdent: origin/name[/version]; version 0 stands for "not given"
PackageIdent == [name : PkgNames, version : 0..MaxVersion]

DesiredState == {"Up", "Down"}

UpdateStrategy == {"None", "AtOnce"}

ServiceSpec == [ident : PackageIdent,
                desired_state : DesiredState,
                update_strategy : UpdateStrategy]

Start(spec) == [op |-> "Start", spec |-> spec]

Stop(spec) == [op |-> "Stop", spec |-> spec]

Restart(to_stop, to_start) ==
    [op |-> "Restart", to_stop |-> to_stop, to_start |-> to_start]

Unreachable == [op |-> "unreachable!()"]

(***************************************************************************)
(* Manager::specs_to_operations                                            *)
(***************************************************************************)
\* An iterator over a collection: its items in some fixed order
RECURSIVE SetToSeq(_)
SetToSeq(S) ==
    IF S = {} THEN <<>>
    ELSE LET x == CHOOSE y \in S : TRUE IN <<x>> \o SetToSeq(S \ {x})

\* the key the reconciler groups specs by (rs.ident.clone(), ds.ident.clone())
SpecKey(spec) == spec.ident

\* ServiceState::default()
ServiceStateDefault == [running |-> None, disk |-> None]

\* for rs in currently_running_specs { svc_states.insert(rs.ident, ..) }
RECURSIVE InsertRunning(_, _)
InsertRunning(svc_states, specs) ==
    IF specs = <<>> THEN svc_states
    ELSE LET rs == Head(specs)
             keys == DOMAIN svc_states \cup {SpecKey(rs)}
         IN InsertRunning(
                [k \in keys |->
                    IF k = SpecKey(rs) THEN [running |-> Some(rs), disk |-> None]
                    ELSE svc_states[k]],
                Tail(specs))

\* for ds in on_disk_specs { svc_states.entry(ident).or_insert(default).disk = .. }
RECURSIVE InsertDisk(_, _)
InsertDisk(svc_states, specs) ==
    IF specs = <<>> THEN svc_states
    ELSE LET ds == Head(specs)
             ident == SpecKey(ds)
             keys == DOMAIN svc_states \cup {ident}
             entry == IF ident \in DOMAIN svc_states
                      THEN svc_states[ident] ELSE ServiceStateDefault
         IN InsertDisk(
                [k \in keys |->
                    IF k = ident
                    THEN [entry EXCEPT !.disk = Some(<<ds.desired_state, ds>>)]
                    ELSE svc_states[k]],
                Tail(specs))

\* a plausible slip: the comparison leaves out update_strategy
SpecsEqual_SkipStrategy(running_spec, disk_spec) ==
    /\ running_spec.ident = disk_spec.ident
    /\ running_spec.desired_state = disk_spec.desired_state

\* running_spec == disk_spec: the derived PartialEq over every field
SpecsEqual(running_spec, disk_spec) == running_spec = disk_spec

\* arm 1: disk Some((Up, disk_spec)), running None
UpNotRunning(disk_spec) == {Start(disk_spec)}

\* a plausible slip: restart without comparing the two specs
UpAndRunning_NoCompare(running_spec, disk_spec) ==
    {Restart(running_spec, disk_spec)}

\* arm 2: disk Some((Up, disk_spec)), running Some(running_spec)
UpAndRunning(running_spec, disk_spec) ==
    IF SpecsEqual(running_spec, disk_spec) THEN {}
    ELSE {Restart(running_spec, disk_spec)}

\* a plausible slip: the Stop carries the spec read from disk
DownAndRunning_StopDiskSpec(running_spec, disk_spec) == {Stop(disk_spec)}

\* arm 3: disk Some((Down, _)), running Some(running_spec)
DownAndRunning(running_spec, disk_spec) == {Stop(running_spec)}

\* a plausible slip: a Down spec is always answered with a Stop
DownNotRunning_Stop(disk_spec) == {Stop(disk_spec)}

\* arm 4: disk Some((Down, _)), running None
DownNotRunning(disk_spec) == {}

\* arm 5: disk None, running Some(running_spec)
NotOnDisk(running_spec) == {Stop(running_spec)}

\* the match of the filter_map closure: the set holds the Some(..) value
Decide(ss) ==
    LET disk_state == Unwrap(ss.disk)[1]
        disk_spec == Unwrap(ss.disk)[2]
        running_spec == Unwrap(ss.running)
    IN CASE ss.disk # None /\ disk_state = "Up" /\ ss.running = None ->
                UpNotRunning(disk_spec)
         [] ss.disk # None /\ disk_state = "Up" /\ ss.running # None ->
                UpAndRunning(running_spec, disk_spec)
         [] ss.disk # None /\ disk_state = "Down" /\ ss.running # None ->
                DownAndRunning(running_spec, disk_spec)
         [] ss.disk # None /\ disk_state = "Down" /\ ss.running = None ->
                DownNotRunning(disk_spec)
         [] ss.disk = None /\ ss.running # None ->
                NotOnDisk(running_spec)
         [] ss.disk = None /\ ss.running = None ->
                {Unreachable}

specs_to_operations(currently_running_specs, on_disk_specs) ==
    LET svc_states ==
            InsertDisk(InsertRunning(<<>>, SetToSeq(currently_running_specs)),
                       SetToSeq(on_disk_specs))
    IN UNION {Decide(svc_states[ident]) : ident \in DOMAIN svc_states}

(***************************************************************************)
(* Inputs of the reconciler.                                               *)
(* Running specs come from ManagerState.services: every service in it was  *)
(* added from a spec with desired state Up, read from the one spec file    *)
(* of its package name.  On-disk specs come from SpecDir::specs(), which   *)
(* keeps one file per package name.                                        *)
(***************************************************************************)
RunningChoice == {None} \cup
    {Some(c) : c \in (0..MaxVersion) \X UpdateStrategy}

RunningInputs ==
    { { [ident |-> [name |-> n, version |-> Unwrap(f[n])[1]],
         desired_state |-> "Up",
         update_strategy |-> Unwrap(f[n])[2]]
          : n \in {m \in PkgNames : f[m] # None} }
      : f \in [PkgNames -> RunningChoice] }

DiskChoice == {None} \cup
    {Some(c) : c \in (0..MaxVersion) \X DesiredState \X UpdateStrategy}

DiskInputs ==
    { { [ident |-> [name |-> n, version |-> Unwrap(f[n])[1]],
         desired_state |-> Unwrap(f[n])[2],
         update_strategy |-> Unwrap(f[n])[3]]
          : n \in {m \in PkgNames : f[m] # None} }
      : f \in [PkgNames -> DiskChoice] }

(***************************************************************************)
(* Initial values of each part                                             *)
(***************************************************************************)
RecIdle ==
    /\ running = {}
    /\ on_disk = {}
    /\ operations = {}
    /\ rec_pc = "idle"

SupIdle ==
    /\ sup_state = "Down"
    /\ sup_pid = None
    /\ pid_file = None
    /\ live_services = {}
    /\ next_pid = 1
    /\ sup_last = [call |-> "idle", result |-> "Ok", had_pid |-> None,
                   launcher |-> "none", started |-> FALSE]

LockIdle ==
    /\ lock_file = None
    /\ lk_pc = <<>>
    /\ lk_read = <<>>
    /\ lk_alive = <<>>
    /\ lk_respawns = <<>>

RunIdle ==
    /\ m_pc = "idle"
    /\ m_services = {}
    /\ m_futures = EmptyBag
    /\ m_mode = None
    /\ m_lock = FALSE
    /\ m_persisted = FALSE
    /\ m_live_at_break = {}
    /\ m_reload = <<>>
    /\ m_stopped = {}

(***************************************************************************)
(* SpecOps: the reconciler applied to every input                          *)
(***************************************************************************)
UpdIdle ==
    /\ u_state = "idle"
    /\ u_worker = None
    /\ u_census = <<>>
    /\ u_last = <<>>
    /\ u_spawns = 0

DirIdle ==
    /\ sd_files = <<>>
    /\ sd_result = None

WatchIdle ==
    /\ sw_channel = <<>>
    /\ sw_last = <<>>
    /\ sw_since = 0

LnIdle ==
    /\ ln_pc = "idle"
    /\ ln_exit = None
    /\ ln_sup = "none"
    /\ ln_rx = <<>>
    /\ ln_table = {}
    /\ ln_proc = <<>>
    /\ ln_reply = None
    /\ ln_spawns = 0
    /\ ln_after = {}

DelayIdle ==
    /\ wd_env = None
    /\ wd_delay = None

StopIdle ==
    /\ st_launcher = "idle"
    /\ st_now = 0
    /\ st_timeout = <<>>
    /\ st_proc = <<>>
    /\ st_killed = <<>>
    /\ st_shutting_down = {}
    /\ st_selected = {}
    /\ st_hard_kills = <<>>

RollIdle ==
    /\ ro_topology = "idle"
    /\ ro_leader = 0
    /\ ro_state = <<>>
    /\ ro_pkg = <<>>
    /\ ro_rx = <<>>
    /\ ro_suit = <<>>
    /\ ro_update_leader = <<>>
    /\ ro_depot = 0

TickIdle ==
    /\ t_pc = "idle"
    /\ t_disk = {}
    /\ t_events = FALSE
    /\ t_services = {}
    /\ t_futures = <<>>
    /\ t_reload = <<>>
    /\ t_changes = 0
    /\ t_updates = 0
    /\ t_failed = FALSE
    /\ t_updater = {}

ExtIdle == UpdIdle /\ DirIdle /\ WatchIdle /\ LnIdle /\ DelayIdle /\ StopIdle /\ RollIdle /\ TickIdle

InitOps ==
    /\ running \in RunningInputs
    /\ on_disk \in DiskInputs
    /\ operations = {}
    /\ rec_pc = "input"
    /\ SupIdle /\ LockIdle /\ RunIdle /\ ExtIdle

\* Manager::reconcile_spec_files: one call of specs_to_operations
Reconcile ==
    /\ rec_pc = "input"
    /\ operations' = specs_to_operations(running, on_disk)
    /\ rec_pc' = "done"
    /\ UNCHANGED <<running, on_disk, supVars, lockVars, runVars, extVars>>

NextOps == Reconcile

SpecOps == InitOps /\ [][NextOps]_vars

(***************************************************************************)
(* Supervisor (manager/service/supervisor.rs) and the Launcher's replies   *)
(***************************************************************************)
DigitChars == <<"0", "1", "2", "3", "4", "5", "6", "7", "8", "9">>

\* write!(f, "{}", pid): the decimal digits of the Pid
RECURSIVE FormatPid(_)
FormatPid(pid) ==
    IF pid < 10 THEN <<DigitChars[pid + 1]>>
    ELSE FormatPid(pid \div 10) \o <<DigitChars[(pid % 10) + 1]>>

DigitValue(c) == CHOOSE d \in 0..9 : DigitChars[d + 1] = c

IsDigit(c) == \E d \in 0..9 : DigitChars[d + 1] = c

RECURSIVE ParseDigits(_, _)
ParseDigits(line, acc) ==
    IF line = <<>> THEN acc
    ELSE ParseDigits(Tail(line), acc * 10 + DigitValue(Head(line)))

\* line.parse::<Pid>(): None when the line is not a number
ParsePid(line) ==
    IF line # <<>> /\ \A i \in 1..Len(line) : IsDigit(line[i])
    THEN Some(ParseDigits(line, 0))
    ELSE None

\* read_pid: File::open, first line, parse
read_pid(file) ==
    IF file = None THEN [ok |-> FALSE, err |-> "PidFileIO", pid |-> 0]
    ELSE IF Unwrap(file) = <<>>
         THEN [ok |-> FALSE, err |-> "PidFileCorrupt", pid |-> 0]
    ELSE IF ParsePid(Unwrap(file)) = None
         THEN [ok |-> FALSE, err |-> "PidFileCorrupt", pid |-> 0]
    ELSE [ok |-> TRUE, err |-> "", pid |-> Unwrap(ParsePid(Unwrap(file)))]

\* process::is_alive(pid): the Launcher reaps its children on every tick,
\* so the live processes are the ones in its table
is_alive(pid) == pid \in live_services

\* ServiceTable::get_mut / remove: is the pid in the Launcher's table
Tracked(pid) == pid \in live_services

\* Supervisor::create_pidfile with the outcome io of the file system:
\* File::create may fail (file untouched), write! may fail (file left empty)
create_pidfile(pid, file, io) ==
    CASE pid = None -> [ok |-> TRUE, file |-> file]
      [] pid # None /\ io = "ok" ->
            [ok |-> TRUE, file |-> Some(FormatPid(Unwrap(pid)))]
      [] pid # None /\ io = "create_failed" -> [ok |-> FALSE, file |-> file]
      [] pid # None /\ io = "write_failed" -> [ok |-> FALSE, file |-> Some(<<>>)]

IoOutcomes == {"ok", "create_failed", "write_failed"}

\* Supervisor::cleanup_pidfile: the file is gone afterwards (removing a
\* missing file is an error that is only logged)
cleanup_pidfile(file) == None

\* the record kept of the last Supervisor call
Last(call, result, had_pid, launcher, started) ==
    [call |-> call, result |-> result, had_pid |-> had_pid,
     launcher |-> launcher, started |-> started]

SupRunning == sup_last.result # "panic"

\* a spawn can fail at any time; it can succeed while the OS has a Pid left
SpawnOutcomes == IF next_pid <= MaxPid THEN BOOLEAN ELSE {FALSE}

\* the body of Supervisor::start, used by start() and by restart() with no pid
StartBody(call, user_ok, spawn_ok, io) ==
    IF ~user_ok
    THEN \* self.user_info(&pkg)? failed
         /\ sup_last' = Last(call, "Err", sup_pid, "none", TRUE)
         /\ UNCHANGED <<sup_state, sup_pid, pid_file, live_services, next_pid>>
    ELSE IF ~spawn_ok
    THEN \* launcher.spawn(..)? failed
         /\ sup_last' = Last(call, "Err", sup_pid, "Err", TRUE)
         /\ UNCHANGED <<sup_state, sup_pid, pid_file, live_services, next_pid>>
    ELSE LET pid == next_pid
             written == create_pidfile(Some(pid), pid_file, io)
         IN /\ live_services' = live_services \cup {pid}
            /\ next_pid' = next_pid + 1
            /\ sup_pid' = Some(pid)
            /\ pid_file' = written.file
            /\ sup_state' = IF written.ok THEN "Up" ELSE sup_state
            /\ sup_last' = Last(call, IF written.ok THEN "Ok" ELSE "Err",
                                sup_pid, "Ok", TRUE)

\* Supervisor::start
SupStart ==
    /\ SupRunning
    /\ \E user_ok \in BOOLEAN, spawn_ok \in SpawnOutcomes, io \in IoOutcomes :
          StartBody("start", user_ok, spawn_ok, io)
    /\ UNCHANGED <<recVars, lockVars, runVars, extVars>>

\* Supervisor::stop with a pid: launcher.terminate(pid)?; cleanup; Down.
\* TerminateHandler answers NoPID for a pid that is not in its table.
SupStopBody(pid) ==
    IF Tracked(pid)
    THEN /\ live_services' = live_services \ {pid}
         /\ pid_file' = cleanup_pidfile(pid_file)
         /\ sup_state' = "Down"
         /\ sup_last' = Last("stop", "Ok", sup_pid, "Ok", FALSE)
    ELSE /\ sup_last' = Last("stop", "Err", sup_pid, "Err", FALSE)
         /\ UNCHANGED <<sup_state, pid_file, live_services>>

\* Supervisor::stop
SupStop ==
    /\ SupRunning
    /\ IF sup_pid = None
       THEN /\ sup_last' = Last("stop", "Ok", sup_pid, "none", FALSE)
            /\ UNCHANGED <<sup_state, pid_file, live_services>>
       ELSE SupStopBody(Unwrap(sup_pid))
    /\ UNCHANGED <<sup_pid, next_pid, recVars, lockVars, runVars, extVars>>

\* a plausible slip: after a failed Launcher restart the state stays as it was
RestartFailed_NoCleanup ==
    /\ sup_last' = Last("restart", "Err", sup_pid, "Err", FALSE)
    /\ UNCHANGED <<sup_state, sup_pid, pid_file>>

\* the Err(err) arm of Supervisor::restart
RestartFailed ==
    /\ pid_file' = cleanup_pidfile(pid_file)
    /\ sup_state' = "Down"
    /\ sup_last' = Last("restart", "Err", sup_pid, "Err", FALSE)
    /\ UNCHANGED sup_pid

\* the Ok(pid) arm of Supervisor::restart
RestartOk(new_pid, io) ==
    LET written == create_pidfile(Some(new_pid), pid_file, io)
    IN /\ sup_pid' = Some(new_pid)
       /\ pid_file' = written.file
       /\ sup_state' = IF written.ok THEN "Up" ELSE sup_state
       /\ sup_last' = Last("restart", IF written.ok THEN "Ok" ELSE "Err",
                           sup_pid, "Ok", FALSE)

\* Supervisor::restart.  RestartHandler: NoPID for an unknown pid; else the
\* service is removed, killed, waited for and run again (which may fail).
SupRestart ==
    /\ SupRunning
    /\ IF sup_pid = None
       THEN \E user_ok \in BOOLEAN, spawn_ok \in SpawnOutcomes, io \in IoOutcomes :
               StartBody("restart", user_ok, spawn_ok, io)
       ELSE LET pid == Unwrap(sup_pid)
            IN IF ~Tracked(pid)
               THEN RestartFailed /\ UNCHANGED <<live_services, next_pid>>
               ELSE \E run_ok \in SpawnOutcomes, io \in IoOutcomes :
                      IF run_ok
                      THEN /\ live_services' =
                                (live_services \ {pid}) \cup {next_pid}
                           /\ next_pid' = next_pid + 1
                           /\ RestartOk(next_pid, io)
                      ELSE /\ live_services' = live_services \ {pid}
                           /\ UNCHANGED next_pid
                           /\ RestartFailed
    /\ UNCHANGED <<recVars, lockVars, runVars, extVars>>

\* Supervisor::check_process
SupCheckProcess ==
    /\ SupRunning
    /\ LET from_file == read_pid(pid_file)
           pid == IF sup_pid # None THEN sup_pid
                  ELSE IF pid_file # None /\ from_file.ok
                       THEN Some(from_file.pid) ELSE None
       IN IF sup_pid = None /\ pid_file # None /\ ~from_file.ok
          THEN \* read_pid(&self.pid_file).unwrap() panics
               /\ sup_last' = Last("check_process", "panic", sup_pid, "none", FALSE)
               /\ UNCHANGED <<sup_state, sup_pid, pid_file>>
          ELSE IF pid # None /\ is_alive(Unwrap(pid))
          THEN /\ sup_state' = "Up"
               /\ sup_pid' = pid
               /\ sup_last' = Last("check_process", "true", sup_pid, "none", FALSE)
               /\ UNCHANGED pid_file
          ELSE /\ sup_state' = "Down"
               /\ pid_file' = cleanup_pidfile(pid_file)
               /\ sup_pid' = None
               /\ sup_last' = Last("check_process", "false", sup_pid, "none", FALSE)
    /\ UNCHANGED <<live_services, next_pid, recVars, lockVars, runVars, extVars>>

\* the service process exits by itself and ServiceTable::reap_zombies drops it
ServiceExits ==
    /\ SupRunning
    /\ \E pid \in live_services :
          live_services' = live_services \ {pid}
    /\ sup_last' = [sup_last EXCEPT !.call = "none"]
    /\ UNCHANGED <<sup_state, sup_pid, pid_file, next_pid,
                   recVars, lockVars, runVars, extVars>>

\* Supervisor::new; a pid file and its process may be left by the
\* Supervisor process that ran before this one
InitSup ==
    /\ sup_state = "Down"
    /\ sup_pid = None
    /\ next_pid = MaxPid - MaxSpawns + 1
    /\ pid_file \in {None, Some(<<>>), Some(FormatPid(MaxPid - MaxSpawns))}
    /\ live_services \in SUBSET {MaxPid - MaxSpawns}
    /\ sup_last = Last("new", "Ok", None, "none", FALSE)
    /\ RecIdle /\ LockIdle /\ RunIdle /\ ExtIdle

NextSup ==
    \/ SupStart
    \/ SupStop
    \/ SupRestart
    \/ SupCheckProcess
    \/ ServiceExits

SpecSup == InitSup /\ [][NextSup]_vars

(***************************************************************************)
(* The process lock: Manager::load, obtain_process_lock and its helpers,   *)
(* run by the Supervisors of several Launchers on one state directory.     *)
(* Every file system call is one step.  The lock names the Launcher's pid  *)
(* (LAUNCHER_PID_ENV); a starter is a Launcher together with the           *)
(* Supervisor it spawned, and is known by that pid.                        *)
(***************************************************************************)
Starters == 1..MaxStarters

\* the pid of a process that died and left its lock file behind
StalePid == MaxStarters + 1

LockFile(owner, content) == Some([owner |-> owner, content |-> content])

\* read_process_lock: File::open, first line, parse
read_process_lock(file) ==
    IF file = None THEN [ok |-> FALSE, err |-> "ProcessLockIO", pid |-> 0]
    ELSE IF ParsePid(Unwrap(file).content) = None
         THEN [ok |-> FALSE, err |-> "ProcessLockCorrupt", pid |-> 0]
    ELSE [ok |-> TRUE, err |-> "", pid |-> Unwrap(ParsePid(Unwrap(file).content))]

\* Manager::load up to obtain_process_lock: a Supervisor spawned with
\* LAUNCHER_LOCK_CLEAN_ENV removes the lock file first
LockLoad(p) ==
    /\ lk_pc[p] \in {"load", "load_clean"}
    /\ lock_file' = IF lk_pc[p] = "load_clean" THEN None ELSE lock_file
    /\ lk_pc' = [lk_pc EXCEPT ![p] = "create1"]
    /\ UNCHANGED <<lk_read, lk_alive, lk_respawns>>

\* write_process_lock: OpenOptions::create_new(true).open(..)
\* (first call of obtain_process_lock, or the call after a release)
LockCreate(p) ==
    /\ lk_pc[p] \in {"create1", "create2"}
    /\ IF lock_file = None
       THEN /\ lock_file' = LockFile(p, <<>>)
            /\ lk_pc' = [lk_pc EXCEPT ![p] = "write"]
       ELSE /\ lk_pc' = [lk_pc EXCEPT ![p] =
                           IF lk_pc[p] = "create1" THEN "read" ELSE "failed_io"]
            /\ UNCHANGED lock_file
    /\ UNCHANGED <<lk_read, lk_alive, lk_respawns>>

\* write_process_lock: write!(&mut file, "{}", pid) on the file it created;
\* if that file was removed meanwhile the write goes to the unlinked file
LockWritePid(p) ==
    /\ lk_pc[p] = "write"
    /\ lock_file' = IF lock_file # None /\ Unwrap(lock_file).owner = p
                    THEN LockFile(p, FormatPid(p)) ELSE lock_file
    /\ lk_pc' = [lk_pc EXCEPT ![p] = "held"]
    /\ UNCHANGED <<lk_read, lk_alive, lk_respawns>>

\* read_process_lock and the match on its result
LockRead(p) ==
    /\ lk_pc[p] = "read"
    /\ LET r == read_process_lock(lock_file)
       IN /\ lk_pc' = [lk_pc EXCEPT ![p] =
                         IF r.ok THEN "check_alive"
                         ELSE IF r.err = "ProcessLockCorrupt" THEN "release"
                         ELSE "failed_io"]
          /\ lk_read' = [lk_read EXCEPT ![p] = r.pid]
    /\ UNCHANGED <<lock_file, lk_alive, lk_respawns>>

\* process::is_alive(pid): ProcessLocked ends the Supervisor with
\* ERR_NO_RETRY_EXCODE, on which its Launcher exits too
LockCheckAlive(p) ==
    /\ lk_pc[p] = "check_alive"
    /\ IF lk_alive[lk_read[p]]
       THEN /\ lk_pc' = [lk_pc EXCEPT ![p] = "failed_locked"]
            /\ lk_alive' = [lk_alive EXCEPT ![p] = FALSE]
       ELSE /\ lk_pc' = [lk_pc EXCEPT ![p] = "release"]
            /\ UNCHANGED lk_alive
    /\ UNCHANGED <<lock_file, lk_read, lk_respawns>>

\* release_process_lock inside obtain_process_lock
LockRelease(p) ==
    /\ lk_pc[p] = "release"
    /\ lock_file' = None
    /\ lk_pc' = [lk_pc EXCEPT ![p] = "create2"]
    /\ UNCHANGED <<lk_read, lk_alive, lk_respawns>>

\* Manager::run returns: release_process_lock, then the Supervisor exits.
\* After Updating the Launcher lives on; after Normal or Departed it exits.
LockSupShutdown(p) ==
    /\ lk_pc[p] = "held"
    /\ lock_file' = None
    /\ \E mode \in {"Normal", "Departed", "Updating"} :
          IF mode = "Updating"
          THEN /\ lk_pc' = [lk_pc EXCEPT ![p] = "exited"]
               /\ UNCHANGED lk_alive
          ELSE /\ lk_pc' = [lk_pc EXCEPT ![p] = "gone"]
               /\ lk_alive' = [lk_alive EXCEPT ![p] = FALSE]
    /\ UNCHANGED <<lk_read, lk_respawns>>

\* Server::reload: the Launcher's Supervisor is gone (exit code other than
\* the no-retry ones) and is spawned again with clean = true
LockRespawn(p) ==
    /\ lk_pc[p] \in {"exited", "failed_io"}
    /\ lk_alive[p]
    /\ lk_respawns[p] < MaxRespawns
    /\ lk_pc' = [lk_pc EXCEPT ![p] = "load_clean"]
    /\ lk_respawns' = [lk_respawns EXCEPT ![p] = @ + 1]
    /\ UNCHANGED <<lock_file, lk_read, lk_alive>>

InitLock ==
    /\ lock_file \in {None, LockFile(StalePid, FormatPid(StalePid))}
    /\ lk_pc = [p \in Starters |-> "load"]
    /\ lk_read = [p \in Starters |-> 0]
    /\ lk_alive = [q \in 1..StalePid |-> q # StalePid]
    /\ lk_respawns = [p \in Starters |-> 0]
    /\ RecIdle /\ SupIdle /\ RunIdle /\ ExtIdle

NextLock ==
    /\ \E p \in Starters :
          \/ LockLoad(p)
          \/ LockCreate(p)
          \/ LockWritePid(p)
          \/ LockRead(p)
          \/ LockCheckAlive(p)
          \/ LockRelease(p)
          \/ LockSupShutdown(p)
          \/ LockRespawn(p)
    /\ UNCHANGED <<recVars, supVars, runVars, extVars>>

SpecLock == InitLock /\ [][NextLock]_vars

(***************************************************************************)
(* Manager::run: the main loop, the futures it spawns on the Tokio         *)
(* runtime, and the shutdown sequence.  m_services holds, for every        *)
(* Service in ManagerState.services, the spec it reports (to_spec).        *)
(***************************************************************************)
ShutdownMode == {"Normal", "Departed", "Updating"}

\* a future spawned on the runtime and not yet completed: stop_service(svc), or restart_service(svc)
Future(kind, svc, by) ==
    [kind |-> kind, svc |-> svc, spawned_by |-> by]

\* state.services.insert(service.spec_ident.clone(), service)
InsertService(services, spec) ==
    {s \in services : s.ident # spec.ident} \cup {spec}

\* Manager::add_service: nothing is inserted when Service::load, the svc
\* path or the user-config watcher fails
add_service(services, spec, loaded) ==
    IF loaded THEN InsertService(services, spec) ELSE services

\* Manager::remove_service_from_state: services.remove(&spec.ident)
remove_service_from_state(services, spec) ==
    {s \in services : s.ident # spec.ident}

RemovedService(services, spec) == {s \in services : s.ident = spec.ident}

RECURSIVE AddAll(_, _, _)
AddAll(services, specs, loaded) ==
    IF specs = <<>> THEN services
    ELSE AddAll(add_service(services, Head(specs), Head(specs) \in loaded),
                Tail(specs), loaded)

RECURSIVE RemoveAll(_, _)
RemoveAll(services, specs) ==
    IF specs = <<>> THEN services
    ELSE RemoveAll(remove_service_from_state(services, Head(specs)), Tail(specs))

\* Manager::take_action_on_services on the operations of one reconcile:
\* Stop and Restart take the Service out of the map and yield a future,
\* Start adds the service synchronously
OpsToStop(services, ops) ==
    {o \in ops : o.op = "Stop" /\ RemovedService(services, o.spec) # {}}

OpsToRestart(services, ops) ==
    {o \in ops : o.op = "Restart" /\ RemovedService(services, o.to_stop) # {}}

OpsToStart(ops) == {o \in ops : o.op = "Start"}

TakeActionFutures(services, ops, by) ==
    SetToBag(
        {Future("stop", CHOOSE s \in RemovedService(services, o.spec) : TRUE, by)
            : o \in OpsToStop(services, ops)}
        \cup
        {Future("restart", CHOOSE s \in RemovedService(services, o.to_stop) : TRUE, by)
            : o \in OpsToRestart(services, ops)})

TakeActionServices(services, ops, loaded) ==
    LET gone == SetToSeq({o.spec : o \in OpsToStop(services, ops)}
                         \cup {o.to_stop : o \in OpsToRestart(services, ops)})
        starts == SetToSeq({o.spec : o \in OpsToStart(ops)})
    IN AddAll(RemoveAll(services, gone), starts, loaded)

\* one call of take_action_on_services with the spec directory holding disk
take_action_on_services(disk, by, next_pc) ==
    LET ops == specs_to_operations(m_services, disk)
        fs == TakeActionFutures(m_services, ops, by)
    IN /\ BagCardinality(m_futures) + BagCardinality(fs) <= MaxFutures
       /\ \E loaded \in SUBSET {o.spec : o \in OpsToStart(ops)} :
             m_services' = TakeActionServices(m_services, ops, loaded)
       /\ m_futures' = m_futures (+) fs
       /\ m_pc' = next_pc
       /\ UNCHANGED <<m_mode, m_lock, m_persisted, m_live_at_break, m_reload, m_stopped>>

\* an error returned through `?` leaves run() at once
RunFails ==
    /\ m_pc' = "failed"
    /\ UNCHANGED <<m_services, m_futures, m_mode, m_lock, m_persisted,
                   m_live_at_break, m_reload, m_stopped>>

\* run(): the first take_action_on_services, before the main loop
RunStartup ==
    /\ m_pc = "start"
    /\ \/ \E disk \in DiskInputs :
             take_action_on_services(disk, "loop", "top")
       \/ RunFails
    /\ UNCHANGED <<recVars, supVars, lockVars, extVars>>

\* top of the main loop: launcher.is_stopping(), check_for_departure(),
\* the HUP signal; each breaks out with its ShutdownMode
RunLoopTop ==
    /\ m_pc = "top"
    /\ \E signal \in {"none", "stopping", "departed", "hup"} :
          IF signal = "none"
          THEN /\ m_pc' = "finish_restarting_services"
               /\ UNCHANGED <<m_mode, m_live_at_break>>
          ELSE /\ m_pc' = "shutdown"
               /\ m_mode' = Some(CASE signal = "stopping" -> "Normal"
                                   [] signal = "departed" -> "Departed"
                                   [] signal = "hup" -> "Updating")
               /\ m_live_at_break' = m_services
    /\ UNCHANGED <<m_services, m_futures, m_lock, m_persisted, m_reload, m_stopped>>
    /\ UNCHANGED <<recVars, supVars, lockVars, extVars>>

\* what ServiceSpec::from_file(&spec_file) gives for the file of a name:
\* an error, or the spec the file holds at that moment
FromFile(name) ==
    {None} \cup {Some(spec) : spec \in {sp \in ServiceSpec : sp.ident.name = name}}

\* the loop of finish_restarting_services: every map it can end with
RECURSIVE ReloadAll(_, _)
ReloadAll(services, paths) ==
    IF paths = <<>> THEN {services}
    ELSE UNION {
           UNION { ReloadAll(
                     IF spec = None THEN services
                     ELSE add_service(services,
                                      [Unwrap(spec) EXCEPT !.desired_state = "Up"],
                                      loaded),
                     Tail(paths))
                   : loaded \in BOOLEAN }
           : spec \in FromFile(Head(paths)) }

\* Manager::finish_restarting_services: swap specs_to_reload for an empty
\* list and add every spec that can be read, with desired state Up
RunFinishRestartingServices ==
    /\ m_pc = "finish_restarting_services"
    /\ m_services' \in ReloadAll(m_services, m_reload)
    /\ m_reload' = <<>>
    /\ m_pc' = "check_for_updated_supervisor"
    /\ UNCHANGED <<m_futures, m_mode, m_lock, m_persisted, m_live_at_break,
                   m_stopped>>
    /\ UNCHANGED <<recVars, supVars, lockVars, extVars>>

\* Manager::check_for_updated_supervisor: a newer package breaks the loop
RunCheckForUpdatedSupervisor ==
    /\ m_pc = "check_for_updated_supervisor"
    /\ \E updated \in BOOLEAN :
          IF updated
          THEN /\ m_pc' = "shutdown"
               /\ m_mode' = Some("Updating")
               /\ m_live_at_break' = m_services
          ELSE /\ m_pc' = "take_action_on_services"
               /\ UNCHANGED <<m_mode, m_live_at_break>>
    /\ UNCHANGED <<m_services, m_futures, m_lock, m_persisted, m_reload, m_stopped>>
    /\ UNCHANGED <<recVars, supVars, lockVars, extVars>>

\* if spec_watcher.has_events() { take_action_on_services()? }, then
\* update_peers_from_watch_file()?
RunTakeAction ==
    /\ m_pc = "take_action_on_services"
    /\ \/ \E disk \in DiskInputs :
             take_action_on_services(disk, "loop", "shutdown_services_for_update")
       \/ /\ m_pc' = "shutdown_services_for_update"
          /\ UNCHANGED <<m_services, m_futures, m_mode, m_lock, m_persisted,
                         m_live_at_break, m_reload, m_stopped>>
       \/ RunFails
    /\ UNCHANGED <<recVars, supVars, lockVars, extVars>>

\* Manager::shutdown_services_for_update: the services the updater has a
\* new package for leave the map and get a restart future each
RunShutdownServicesForUpdate ==
    /\ m_pc = "shutdown_services_for_update"
    /\ \E to_restart \in SUBSET {s \in m_services : s.update_strategy # "None"} :
          /\ BagCardinality(m_futures) + Cardinality(to_restart) <= MaxFutures
          /\ m_services' = m_services \ to_restart
          /\ m_futures' = m_futures (+)
                SetToBag({Future("restart", svc, "loop") : svc \in to_restart})
    /\ m_pc' = "top"
    /\ UNCHANGED <<m_mode, m_lock, m_persisted, m_live_at_break, m_reload, m_stopped>>
    /\ UNCHANGED <<recVars, supVars, lockVars, extVars>>

stop_service_PropagatesErr(stop_result) ==
    [result |-> stop_result, cleaned |-> TRUE]

\* Manager::stop_service: service.stop().then(|_| { watcher.remove;
\* updater.remove; Ok(()) }) -- the clean-up runs and the result is Ok
\* whatever service.stop() gave
stop_service(stop_result) == [result |-> "Ok", cleaned |-> TRUE]

\* Manager::restart_service: stop_service(..).and_then(push spec_file_path)
RestartPushes(stopped) == stopped.result = "Ok"

FutureResolves_ReAdds(f) ==
    /\ m_pc \notin {"idle", "start"}
    /\ BagIn(f, m_futures)
    /\ \E stop_result \in {"Ok", "Err"} :
          LET stopped == stop_service(stop_result)
          IN /\ m_futures' = m_futures (-) SetToBag({f})
             /\ m_reload' = m_reload
             /\ m_services' = IF f.kind = "restart" /\ RestartPushes(stopped)
                              THEN InsertService(m_services, f.svc)
                              ELSE m_services
             /\ m_stopped' = IF m_mode = None THEN m_stopped
                             ELSE m_stopped \cup
                                  {[svc |-> f.svc, kind |-> f.kind,
                                    spawned_by |-> f.spawned_by,
                                    stop_result |-> stop_result,
                                    cleaned |-> stopped.cleaned]}
    /\ UNCHANGED <<m_pc, m_mode, m_lock, m_persisted, m_live_at_break>>
    /\ UNCHANGED <<recVars, supVars, lockVars, extVars>>

\* the runtime drives one spawned future to completion and drops it
FutureResolves(f) ==
    /\ m_pc \notin {"idle", "start"}
    /\ BagIn(f, m_futures)
    /\ \E stop_result \in {"Ok", "Err"} :
          LET stopped == stop_service(stop_result)
          IN /\ m_futures' = m_futures (-) SetToBag({f})
             /\ m_reload' = IF f.kind = "restart" /\ RestartPushes(stopped)
                            THEN Append(m_reload, f.svc.ident.name)
                            ELSE m_reload
             /\ m_stopped' = IF m_mode = None THEN m_stopped
                             ELSE m_stopped \cup
                                  {[svc |-> f.svc, kind |-> f.kind,
                                    spawned_by |-> f.spawned_by,
                                    stop_result |-> stop_result,
                                    cleaned |-> stopped.cleaned]}
    /\ UNCHANGED <<m_pc, m_services, m_mode, m_lock, m_persisted, m_live_at_break>>
    /\ UNCHANGED <<recVars, supVars, lockVars, extVars>>

\* after the loop: ctl_shutdown_tx.send(()), then match shutdown_mode;
\* Normal and Departed drain the services and spawn stop_service for each
RunShutdown ==
    /\ m_pc = "shutdown"
    /\ IF Unwrap(m_mode) = "Updating"
       THEN UNCHANGED <<m_services, m_futures>>
       ELSE /\ m_services' = {}
            /\ m_futures' = m_futures (+)
                  SetToBag({Future("stop", svc, "shutdown") : svc \in m_services})
    /\ m_pc' = "shutdown_on_idle"
    /\ UNCHANGED <<m_mode, m_lock, m_persisted, m_live_at_break, m_reload, m_stopped>>
    /\ UNCHANGED <<recVars, supVars, lockVars, extVars>>

RuntimeIdle_NoWait == TRUE

\* runtime.shutdown_on_idle().wait(): returns once every spawned future
\* has completed
RuntimeIdle == BagToSet(m_futures) = {}

RunShutdownOnIdle ==
    /\ m_pc = "shutdown_on_idle"
    /\ RuntimeIdle
    /\ m_pc' = "release_process_lock"
    /\ UNCHANGED <<m_services, m_futures, m_mode, m_lock, m_persisted,
                   m_live_at_break, m_reload, m_stopped>>
    /\ UNCHANGED <<recVars, supVars, lockVars, extVars>>

\* release_process_lock(&self.fs_cfg)
RunReleaseProcessLock ==
    /\ m_pc = "release_process_lock"
    /\ m_lock' = FALSE
    /\ m_pc' = "persist_data"
    /\ UNCHANGED <<m_services, m_futures, m_mode, m_persisted,
                   m_live_at_break, m_reload, m_stopped>>
    /\ UNCHANGED <<recVars, supVars, lockVars, extVars>>

\* self.butterfly.persist_data(), then the match that gives run()'s result
RunPersistData ==
    /\ m_pc = "persist_data"
    /\ m_persisted' = TRUE
    /\ m_pc' = IF Unwrap(m_mode) = "Departed" THEN "returned_departed"
               ELSE "returned_ok"
    /\ UNCHANGED <<m_services, m_futures, m_mode, m_lock,
                   m_live_at_break, m_reload, m_stopped>>
    /\ UNCHANGED <<recVars, supVars, lockVars, extVars>>

main_NoDepartedArm(result) ==
    CASE result = "returned_ok" -> "exit_0"
      [] OTHER -> "exit_1"

\* main() of the Supervisor: the process ends with 0 when start() returns
\* Ok, with ERR_NO_RETRY_EXCODE for Error::Departed, with 1 for the errors
\* run() lets through with `?`
main(result) ==
    CASE result = "returned_ok" -> "exit_0"
      [] result = "returned_departed" -> "exit_ERR_NO_RETRY"
      [] OTHER -> "exit_1"

\* the result of run() reaches main() and the process exits
RunMain ==
    /\ m_pc \in {"returned_ok", "returned_departed", "failed"}
    /\ m_pc' = main(m_pc)
    /\ UNCHANGED <<m_services, m_futures, m_mode, m_lock, m_persisted,
                   m_live_at_break, m_reload, m_stopped>>
    /\ UNCHANGED <<recVars, supVars, lockVars, extVars>>

\* Manager::load obtained the process lock; run() starts with no service
InitRun ==
    /\ m_pc = "start"
    /\ m_services = {}
    /\ m_futures = EmptyBag
    /\ m_mode = None
    /\ m_lock = TRUE
    /\ m_persisted = FALSE
    /\ m_live_at_break = {}
    /\ m_reload = <<>>
    /\ m_stopped = {}
    /\ RecIdle /\ SupIdle /\ LockIdle /\ ExtIdle

NextRun ==
    \/ RunStartup
    \/ RunLoopTop
    \/ RunFinishRestartingServices
    \/ RunCheckForUpdatedSupervisor
    \/ RunTakeAction
    \/ RunShutdownServicesForUpdate
    \/ \E f \in BagToSet(m_futures) : FutureResolves(f)
    \/ RunShutdown
    \/ RunShutdownOnIdle
    \/ RunReleaseProcessLock
    \/ RunPersistData
    \/ RunMain

SpecRun == InitRun /\ [][NextRun]_vars

(***************************************************************************)
(* ServiceUpdater (manager/service_updater.rs) for one service group, its  *)
(* update Worker thread, and the census of the group.                      *)
(***************************************************************************)
Pkgs == {"v1", "v2"}

\* CensusMember.pkg: Option<PackageIdent>
OptPkg == {None} \cup {Some(p) : p \in Pkgs}

UpdaterStates ==
    {"absent", "AtOnce", "AwaitingElection", "InElection",
     "LeaderPolling", "LeaderWaiting", "FollowerWaiting", "FollowerUpdating"}

\* the states that hold a Receiver<PackageInstall>
HoldsChannel(state) == state \in {"AtOnce", "LeaderPolling", "FollowerUpdating"}

\* what check_for_updated_package reads from the CensusRing: is there a
\* census group, me(), leader(), update_leader(), previous_peer(), and
\* whether every member reports the package of me()
NoCensusGroup ==
    [group |-> FALSE, me |-> None, leader |-> FALSE, update_leader |-> None,
     previous_peer |-> None, members |-> "agree"]

Census ==
    {NoCensusGroup} \cup
    { c \in [group : {TRUE},
             me : {None} \cup {Some(p) : p \in OptPkg},
             leader : BOOLEAN,
             update_leader : {None} \cup
                 {Some(l) : l \in [is_me : BOOLEAN, pkg : OptPkg]},
             previous_peer : {None} \cup {Some(p) : p \in OptPkg},
             members : {"agree", "differ", "unset"}] :
        (c.update_leader # None /\ Unwrap(c.update_leader).is_me)
            => (c.me # None /\ Unwrap(c.update_leader).pkg = Unwrap(c.me)) }

\* Worker::new(service).start(&service.service_group, ident): a new thread
\* and the rendezvous channel it will send its package on
WorkerStart(ident) ==
    Some([id |-> u_spawns + 1, ident |-> ident, chan |-> "Empty"])

try_recv_NeverEmpty(worker) ==
    CASE Unwrap(worker).chan = "Ready" -> "Ok"
      [] OTHER -> "Disconnected"

\* Receiver::try_recv on the channel of the worker
try_recv(worker) ==
    CASE Unwrap(worker).chan = "Ready" -> "Ok"
      [] Unwrap(worker).chan = "Disconnected" -> "Disconnected"
      [] OTHER -> "Empty"

\* the worker's send has been received: it breaks out of its loop
Received(worker) == Some([Unwrap(worker) EXCEPT !.chan = "Sent"])

UpdResult(state, worker, ret) == [state |-> state, worker |-> worker, ret |-> ret]

\* arm Some(AtOnce(rx)): Ok returns true and keeps the receiver
CheckAtOnce ==
    CASE try_recv(u_worker) = "Ok" -> UpdResult("AtOnce", Received(u_worker), "true")
      [] try_recv(u_worker) = "Empty" -> UpdResult("AtOnce", u_worker, "false")
      [] try_recv(u_worker) = "Disconnected" ->
            UpdResult("AtOnce", WorkerStart(None), "false")

\* arm Some(Rolling(AwaitingElection))
CheckAwaitingElection(topology) ==
    IF ~u_census.group THEN UpdResult("AwaitingElection", None, "false")
    ELSE IF topology = "Leader" /\ ~(u_census.me # None /\ u_census.leader)
         THEN UpdResult("AwaitingElection", None, "false")
    ELSE UpdResult("InElection", None, "false")

CheckInElection_AlwaysFollower ==
    IF u_census.group /\ u_census.me # None /\ u_census.update_leader # None
    THEN UpdResult("FollowerWaiting", None, "false")
    ELSE UpdResult("InElection", None, "false")

\* arm Some(Rolling(InElection))
CheckInElection ==
    IF u_census.group /\ u_census.me # None /\ u_census.update_leader # None
    THEN IF Unwrap(u_census.update_leader).is_me
         THEN UpdResult("LeaderWaiting", None, "false")
         ELSE UpdResult("FollowerWaiting", None, "false")
    ELSE UpdResult("InElection", None, "false")

\* arm Leader, LeaderState::Polling(rx); `if updated { Waiting }` drops rx
CheckLeaderPolling ==
    CASE try_recv(u_worker) = "Ok" -> UpdResult("LeaderWaiting", None, "true")
      [] try_recv(u_worker) = "Empty" -> UpdResult("LeaderPolling", u_worker, "false")
      [] try_recv(u_worker) = "Disconnected" ->
            UpdResult("LeaderPolling", WorkerStart(None), "false")

CheckLeaderWaiting_IgnoresMembers ==
    IF ~u_census.group THEN UpdResult("LeaderWaiting", None, "panic")
    ELSE IF u_census.members = "unset" \/ u_census.me = None
         THEN UpdResult("LeaderWaiting", None, "panic")
    ELSE UpdResult("LeaderPolling", WorkerStart(None), "false")

\* arm Leader, LeaderState::Waiting
CheckLeaderWaiting ==
    IF ~u_census.group THEN UpdResult("LeaderWaiting", None, "panic")
    ELSE IF u_census.members = "unset" \/ u_census.me = None
         THEN UpdResult("LeaderWaiting", None, "panic")
    ELSE IF u_census.members = "differ"
         THEN UpdResult("LeaderWaiting", None, "false")
    ELSE UpdResult("LeaderPolling", WorkerStart(None), "false")

FollowerWaiting_IgnoresPeer(leader, peer) == TRUE

\* FollowerState::Waiting: `if leader.pkg != peer.pkg { return false }`
FollowerTurn(leader, peer) == leader.pkg = peer

\* arm Follower, FollowerState::Waiting
CheckFollowerWaiting ==
    IF ~u_census.group THEN UpdResult("FollowerWaiting", None, "panic")
    ELSE IF u_census.update_leader = None \/ u_census.previous_peer = None
            \/ u_census.me = None
         THEN UpdResult("FollowerWaiting", None, "false")
    ELSE LET leader == Unwrap(u_census.update_leader)
             peer == Unwrap(u_census.previous_peer)
             me == Unwrap(u_census.me)
         IN IF leader.pkg = me THEN UpdResult("FollowerWaiting", None, "false")
            ELSE IF ~FollowerTurn(leader, peer)
                 THEN UpdResult("FollowerWaiting", None, "false")
            ELSE UpdResult("FollowerUpdating", WorkerStart(leader.pkg), "false")

\* arm Follower, FollowerState::Updating(rx)
CheckFollowerUpdating ==
    IF ~u_census.group THEN UpdResult("FollowerUpdating", u_worker, "panic")
    ELSE CASE try_recv(u_worker) = "Ok" -> UpdResult("FollowerWaiting", None, "true")
           [] try_recv(u_worker) = "Empty" ->
                 UpdResult("FollowerUpdating", u_worker, "false")
           [] try_recv(u_worker) = "Disconnected" ->
                 IF u_census.update_leader = None
                 THEN UpdResult("FollowerUpdating", u_worker, "panic")
                 ELSE UpdResult("FollowerUpdating",
                                WorkerStart(Unwrap(u_census.update_leader).pkg),
                                "false")

\* ServiceUpdater::check_for_updated_package: match self.states.get_mut(..)
check_for_updated_package(topology) ==
    CASE u_state = "AtOnce" -> CheckAtOnce
      [] u_state = "AwaitingElection" -> CheckAwaitingElection(topology)
      [] u_state = "InElection" -> CheckInElection
      [] u_state = "LeaderPolling" -> CheckLeaderPolling
      [] u_state = "LeaderWaiting" -> CheckLeaderWaiting
      [] u_state = "FollowerWaiting" -> CheckFollowerWaiting
      [] u_state = "FollowerUpdating" -> CheckFollowerUpdating
      [] u_state = "absent" -> UpdResult("absent", None, "false")

UpdLast(call, from, recv, worker, ret) ==
    [call |-> call, from |-> from, recv |-> recv, worker |-> worker,
     ret |-> ret]

UpdRunning == u_last.ret # "panic"

Spawned(worker) == worker # None /\ Unwrap(worker).id > u_spawns

\* one call of check_for_updated_package from the main loop
UpdCheck ==
    /\ UpdRunning
    /\ \E topology \in {"Standalone", "Leader"} :
          LET r == check_for_updated_package(topology)
          IN /\ Spawned(r.worker) => u_spawns < MaxWorkers
             /\ u_state' = r.state
             /\ u_worker' = r.worker
             /\ u_spawns' = IF Spawned(r.worker) THEN u_spawns + 1 ELSE u_spawns
             /\ u_last' = UpdLast("check", u_state,
                                  IF HoldsChannel(u_state) THEN try_recv(u_worker)
                                  ELSE "none",
                                  u_worker, r.ret)
    /\ UNCHANGED u_census
    /\ UNCHANGED updOthers

UpdAdd_Overwrites ==
    /\ UpdRunning
    /\ \E update_strategy \in {"None", "AtOnce", "Rolling"} :
          /\ update_strategy = "AtOnce" => u_spawns < MaxWorkers
          /\ IF update_strategy = "None"
             THEN UNCHANGED <<u_state, u_worker, u_spawns>>
             ELSE IF update_strategy = "AtOnce"
                  THEN /\ u_state' = "AtOnce"
                       /\ u_worker' = WorkerStart(None)
                       /\ u_spawns' = u_spawns + 1
                  ELSE /\ u_state' = "AwaitingElection"
                       /\ u_worker' = None
                       /\ UNCHANGED u_spawns
          /\ u_last' = UpdLast("add", u_state, "none", u_worker,
                               IF update_strategy = "None" THEN "false" ELSE "true")
    /\ UNCHANGED u_census
    /\ UNCHANGED updOthers

\* ServiceUpdater::add: the entry of the group, made from the service's
\* update strategy if the group has none yet
UpdAdd ==
    /\ UpdRunning
    /\ \E update_strategy \in {"None", "AtOnce", "Rolling"} :
          /\ (update_strategy = "AtOnce" /\ u_state = "absent")
                => u_spawns < MaxWorkers
          /\ IF update_strategy = "None" \/ u_state # "absent"
             THEN UNCHANGED <<u_state, u_worker, u_spawns>>
             ELSE IF update_strategy = "AtOnce"
                  THEN /\ u_state' = "AtOnce"
                       /\ u_worker' = WorkerStart(None)
                       /\ u_spawns' = u_spawns + 1
                  ELSE /\ u_state' = "AwaitingElection"
                       /\ UNCHANGED <<u_worker, u_spawns>>
          /\ u_last' = UpdLast("add", u_state, "none", u_worker,
                               IF update_strategy = "None" THEN "false" ELSE "true")
    /\ UNCHANGED u_census
    /\ UNCHANGED updOthers

\* ServiceUpdater::remove, called when the stop of a service of the group
\* has resolved (Manager::stop_service): the entry of the group is dropped,
\* and the Receiver it held with it
UpdRemove ==
    /\ UpdRunning
    /\ u_state' = "absent"
    /\ u_worker' = None
    /\ u_last' = UpdLast("remove", u_state, "none", u_worker, "false")
    /\ UNCHANGED <<u_census, u_spawns>>
    /\ UNCHANGED updOthers

\* Worker::run_once / run_poll: an installed package is handed to
\* sender.send, which blocks until the main thread receives it
WorkerSends ==
    /\ u_worker # None
    /\ Unwrap(u_worker).chan = "Empty"
    /\ u_worker' = Some([Unwrap(u_worker) EXCEPT !.chan = "Ready"])
    /\ UNCHANGED <<u_state, u_census, u_last, u_spawns>>
    /\ UNCHANGED updOthers

\* the worker thread ends, after its send (break) or by a panic: the
\* SyncSender is dropped and the channel is disconnected
WorkerExits ==
    /\ u_worker # None
    /\ Unwrap(u_worker).chan \in {"Empty", "Sent"}
    /\ u_worker' = Some([Unwrap(u_worker) EXCEPT !.chan = "Disconnected"])
    /\ UNCHANGED <<u_state, u_census, u_last, u_spawns>>
    /\ UNCHANGED updOthers

\* the censuses one rumor away from c: the group appears or disappears,
\* or one of the facts about it changes
CensusNext(c) ==
    IF ~c.group THEN {[NoCensusGroup EXCEPT !.group = TRUE]}
    ELSE ({NoCensusGroup}
          \cup {[c EXCEPT !.me = v] : v \in {None} \cup {Some(p) : p \in OptPkg}}
          \cup {[c EXCEPT !.leader = v] : v \in BOOLEAN}
          \cup {[c EXCEPT !.update_leader = v] :
                   v \in {None} \cup {Some(l) : l \in [is_me : BOOLEAN, pkg : OptPkg]}}
          \cup {[c EXCEPT !.previous_peer = v] :
                   v \in {None} \cup {Some(p) : p \in OptPkg}}
          \cup {[c EXCEPT !.members = v] : v \in {"agree", "differ", "unset"}})
         \cap Census

\* CensusRing::update_from_rumors: the census of the group changes
CensusChanges ==
    /\ UpdRunning
    /\ u_census' \in CensusNext(u_census) \ {u_census}
    /\ UNCHANGED <<u_state, u_worker, u_last, u_spawns>>
    /\ UNCHANGED updOthers

\* ServiceUpdater::new: no state for any group
InitUpd ==
    /\ u_state = "absent"
    /\ u_worker = None
    /\ u_census \in Census
    /\ u_last = UpdLast("new", "absent", "none", None, "false")
    /\ u_spawns = 0
    /\ RecIdle /\ SupIdle /\ LockIdle /\ RunIdle /\ DirIdle /\ WatchIdle
    /\ LnIdle /\ DelayIdle /\ StopIdle /\ RollIdle /\ TickIdle

NextUpd ==
    \/ UpdAdd
    \/ UpdCheck
    \/ UpdRemove
    \/ WorkerSends
    \/ WorkerExits
    \/ CensusChanges

SpecUpd == InitUpd /\ [][NextUpd]_vars

(***************************************************************************)
(* SpecDir (manager/spec_dir.rs): spec_files() and specs()                 *)
(***************************************************************************)
\* the *.spec paths the glob walks, in the order it yields them
Stems == <<"bar", "foo">>

\* what ServiceSpec::from_file gives for a regular file
FromFileResults ==
    {[ok |-> FALSE, err |-> e, spec |-> None]
        : e \in {"ServiceSpecParse", "MissingRequiredIdent", "ServiceSpecFileIO"}}
    \cup {[ok |-> TRUE, err |-> "", spec |-> Some(sp)] : sp \in ServiceSpec}

\* an entry of the directory: no such path, a path the glob fails on, a
\* path that is not a regular file, or a regular file
DirEntries ==
    {[kind |-> k, from_file |-> None] : k \in {"absent", "glob_error", "not_a_file"}}
    \cup {[kind |-> "file", from_file |-> Some(r)] : r \in FromFileResults}

\* SpecDir::spec_files: glob(..).filter_map(|p| p.ok()).filter(|p| p.is_file())
RECURSIVE spec_files(_, _)
spec_files(files, stems) ==
    IF stems = <<>> THEN <<>>
    ELSE (IF files[Head(stems)].kind = "file" THEN <<Head(stems)>> ELSE <<>>)
         \o spec_files(files, Tail(stems))

\* the errors of from_file that specs() reports and skips
SkippedError(err) == err \in {"ServiceSpecParse", "MissingRequiredIdent"}

\* SpecDir::specs: the loop over spec_files(), with the specs pushed so far
RECURSIVE specs_loop(_, _, _)
specs_loop(files, paths, specs) ==
    IF paths = <<>> THEN [ok |-> TRUE, err |-> "", specs |-> specs]
    ELSE LET stem == Head(paths)
             r == Unwrap(files[stem].from_file)
         IN IF ~r.ok
            THEN IF SkippedError(r.err)
                 THEN specs_loop(files, Tail(paths), specs)
                 ELSE [ok |-> FALSE, err |-> r.err, specs |-> <<>>]
            ELSE IF stem # Unwrap(r.spec).ident.name
                 THEN specs_loop(files, Tail(paths), specs)
                 ELSE specs_loop(files, Tail(paths), Append(specs, Unwrap(r.spec)))

specs(files) == specs_loop(files, spec_files(files, Stems), <<>>)

InitDir ==
    /\ sd_files \in [{Stems[i] : i \in DOMAIN Stems} -> DirEntries]
    /\ sd_result = None
    /\ RecIdle /\ SupIdle /\ LockIdle /\ RunIdle /\ UpdIdle /\ WatchIdle
    /\ LnIdle /\ DelayIdle /\ StopIdle /\ RollIdle /\ TickIdle

\* one call of SpecDir::specs()
SpecsCall ==
    /\ sd_result = None
    /\ sd_result' = Some(specs(sd_files))
    /\ UNCHANGED sd_files
    /\ UNCHANGED dirOthers

NextDir == SpecsCall

SpecDirSpecs == InitDir /\ [][NextDir]_vars

(***************************************************************************)
(* SpecWatcher (manager/spec_watcher.rs)                                   *)
(***************************************************************************)
\* the DebouncedEvents the notify watcher sends for the spec directory
DebouncedEvent == {"Create", "Write", "Remove"}

has_events_KeepsQueue(channel) ==
    [ret |-> channel # <<>>, drained |-> 0, channel |-> channel]

\* SpecWatcher::has_events: !self.channel.try_iter().collect().is_empty()
has_events(channel) ==
    [ret |-> channel # <<>>, drained |-> Len(channel), channel |-> <<>>]

\* the watcher thread sends an event on the channel
FsEvent ==
    /\ Len(sw_channel) < MaxEvents
    /\ \E e \in DebouncedEvent : sw_channel' = Append(sw_channel, e)
    /\ sw_since' = sw_since + 1
    /\ UNCHANGED sw_last
    /\ UNCHANGED watchOthers

\* one call of has_events()
HasEvents ==
    /\ LET r == has_events(sw_channel)
       IN /\ sw_channel' = r.channel
          /\ sw_last' = [call |-> "has_events", ret |-> r.ret, drained |-> r.drained]
    /\ sw_since' = 0
    /\ UNCHANGED watchOthers

\* SpecWatcher::run: a new watcher with an empty channel
InitWatch ==
    /\ sw_channel = <<>>
    /\ sw_last = [call |-> "run", ret |-> FALSE, drained |-> 0]
    /\ sw_since = 0
    /\ RecIdle /\ SupIdle /\ LockIdle /\ RunIdle /\ UpdIdle /\ DirIdle
    /\ LnIdle /\ DelayIdle /\ StopIdle /\ RollIdle /\ TickIdle

NextWatch ==
    \/ FsEvent
    \/ HasEvents

SpecWatch == InitWatch /\ [][NextWatch]_vars

(***************************************************************************)
(* Launcher Server (launcher/src/server/mod.rs and its handlers)           *)
(***************************************************************************)
\* the Pids of the service processes
ServicePids == 1..MaxServices

\* how a Supervisor process can have ended: status.code() is
\* Some(ERR_NO_RETRY_EXCODE), Some(OK_NO_RETRY_EXCODE), Some(another code),
\* or None when a signal ended it
SupStatus == {"ERR_NO_RETRY", "OK_NO_RETRY", "other", "signal"}

\* the requests dispatch() knows
Requests ==
    [id : {"Terminate", "Restart"}, pid : ServicePids]
        \cup {[id |-> "Spawn", pid |-> 0]}

\* the Pid the OS gives to the next service process, 0 when there is none
NextServicePid ==
    IF \E p \in ServicePids : ln_proc[p] = "none"
    THEN CHOOSE p \in ServicePids :
            /\ ln_proc[p] = "none"
            /\ \A q \in ServicePids : ln_proc[q] = "none" => p <= q
    ELSE 0

\* Process::kill: the shutdown signal is sent, nobody waits for the process
kill(proc, pid) ==
    IF proc[pid] = "running" THEN [proc EXCEPT ![pid] = "stopping"] ELSE proc

\* Process::try_wait on a process in the given state: waitpid(WNOHANG)
\* gives Ok(None) while it lives, its status once it ended, and an error
\* for a process that cannot be waited for
try_wait(state) ==
    CASE state \in {"running", "stopping"} -> "Running"
      [] state = "exited" -> "Exited"
      [] OTHER -> "Err"

\* Process::wait: waitpid without WNOHANG, it returns only once try_wait
\* would report something else than a running process
wait(state) == try_wait(state)

\* ServiceTable::kill_all: kill() on every service of live_services
kill_all(table, proc) ==
    [p \in ServicePids |->
        IF p \in table /\ proc[p] = "running" THEN "stopping" ELSE proc[p]]

reap_zombies_KeepsErr(table, proc) ==
    {p \in table : try_wait(proc[p]) # "Exited"}

\* ServiceTable::reap_zombies: the services whose try_wait gave a status
\* or an error leave the table
reap_zombies(table, proc) == {p \in table : try_wait(proc[p]) = "Running"}

NetErr(msg, code) == Some([msg |-> msg, reply |-> "NetErr", code |-> code])

ReplyOk(msg, reply) == Some([msg |-> msg, reply |-> reply, code |-> ""])

\* a handler sits in service.wait() and has not replied to msg yet
Waiting(msg) == Some([msg |-> msg, reply |-> "none", code |-> ""])

get_mut_FindsAny(table, pid) == TRUE

\* ServiceTable::get_mut / ServiceTable::remove: Some for a Pid of the map
get_mut(table, pid) == pid \in table

\* TerminateHandler::handle up to service.wait()
TerminateHandler(msg) ==
    IF get_mut(ln_table, msg.pid)
    THEN /\ ln_proc' = kill(ln_proc, msg.pid)
         /\ ln_reply' = Waiting(msg)
         /\ ln_pc' = "wait"
         /\ UNCHANGED ln_table
    ELSE /\ ln_reply' = NetErr(msg, "NoPID")
         /\ ln_pc' = "reap"
         /\ UNCHANGED <<ln_table, ln_proc>>

\* service::run: a new process, or an error when it cannot be spawned
RunOutcomes == IF NextServicePid # 0 THEN BOOLEAN ELSE {FALSE}

\* RestartHandler::handle up to service.wait()
RestartHandler(msg) ==
    IF get_mut(ln_table, msg.pid)
    THEN /\ ln_table' = ln_table \ {msg.pid}
         /\ ln_proc' = kill(ln_proc, msg.pid)
         /\ ln_reply' = Waiting(msg)
         /\ ln_pc' = "wait"
    ELSE /\ ln_reply' = NetErr(msg, "NoPID")
         /\ ln_pc' = "reap"
         /\ UNCHANGED <<ln_table, ln_proc>>

\* SpawnHandler: service::run, and the new service enters the table
SpawnHandler(msg) ==
    /\ \E run_ok \in RunOutcomes :
          IF run_ok
          THEN /\ ln_proc' = [ln_proc EXCEPT ![NextServicePid] = "running"]
               /\ ln_table' = ln_table \cup {NextServicePid}
               /\ ln_reply' = ReplyOk(msg, "SpawnOk")
          ELSE /\ ln_reply' = NetErr(msg, "other")
               /\ UNCHANGED <<ln_table, ln_proc>>
    /\ ln_pc' = "reap"

\* dispatch(): the handler of the message id
dispatch(msg) ==
    CASE msg.id = "Restart" -> RestartHandler(msg)
      [] msg.id = "Spawn" -> SpawnHandler(msg)
      [] msg.id = "Terminate" -> TerminateHandler(msg)

handle_exit_NoOkArm(status) ==
    CASE status = "ERR_NO_RETRY" -> Some("ERR_NO_RETRY")
      [] OTHER -> None

\* the match on status.code() in Server::handle_message: Some(code) when
\* the Launcher exits with that code, None for Err(Error::SupShutdown)
handle_exit(status) ==
    CASE status = "ERR_NO_RETRY" -> Some("ERR_NO_RETRY")
      [] status = "OK_NO_RETRY" -> Some("0")
      [] OTHER -> None

\* Server::tick up to the signal check: reap_zombies and
\* handle_stopping_services (shutting_down is always empty)
LnReap ==
    /\ ln_pc = "reap"
    /\ ln_table' = reap_zombies(ln_table, ln_proc)
    /\ ln_pc' = "signal"
    /\ UNCHANGED <<ln_exit, ln_sup, ln_rx, ln_proc, ln_reply, ln_spawns, ln_after>>
    /\ UNCHANGED lnOthers

\* Server::shutdown: the Supervisor is told to shut down (or killed) and
\* waited for, then kill_all
LnShutdown ==
    /\ \E status \in SupStatus :
          ln_sup' = IF ln_sup = "running" THEN status ELSE ln_sup
    /\ ln_proc' = kill_all(ln_table, ln_proc)
    /\ ln_exit' = Some("0")
    /\ ln_pc' = "exited"
    /\ UNCHANGED <<ln_rx, ln_table, ln_reply, ln_spawns, ln_after>>

\* Server::tick: the match on signals::check_for_signal()
LnSignal ==
    /\ ln_pc = "signal"
    /\ \E sig \in {"None", "Shutdown", "Passthrough"} :
          IF sig = "Shutdown"
          THEN LnShutdown
          ELSE /\ ln_pc' = "message"
               /\ UNCHANGED <<ln_exit, ln_sup, ln_rx, ln_table, ln_proc,
                              ln_reply, ln_spawns, ln_after>>
    /\ UNCHANGED lnOthers

\* Server::handle_message, and the arm of server::run its result selects.
\* supervisor.try_wait() answers Ok: the Supervisor is a child of this
\* process that only this call reaps.
LnHandleMessage ==
    /\ ln_pc = "message"
    /\ IF ln_rx # <<>>
       THEN /\ dispatch(Head(ln_rx))
            /\ ln_rx' = Tail(ln_rx)
            /\ UNCHANGED <<ln_exit, ln_sup, ln_spawns, ln_after>>
       ELSE IF ln_sup = "running"
       THEN /\ ln_pc' = "reap"
            /\ UNCHANGED <<ln_exit, ln_sup, ln_rx, ln_table, ln_proc,
                           ln_reply, ln_spawns, ln_after>>
       ELSE IF handle_exit(ln_sup) # None
       THEN /\ ln_proc' = kill_all(ln_table, ln_proc)
            /\ ln_exit' = handle_exit(ln_sup)
            /\ ln_pc' = "exited"
            /\ UNCHANGED <<ln_sup, ln_rx, ln_table, ln_reply, ln_spawns, ln_after>>
       ELSE /\ ln_pc' = "reload"
            /\ UNCHANGED <<ln_exit, ln_sup, ln_rx, ln_table, ln_proc,
                           ln_reply, ln_spawns, ln_after>>
    /\ UNCHANGED lnOthers

\* service.wait() of TerminateHandler or RestartHandler returns, which it
\* does once the process has ended, and the handler runs to its end
LnWait ==
    /\ ln_pc = "wait"
    /\ LET msg == Unwrap(ln_reply).msg
           status == wait(ln_proc[msg.pid])
       IN /\ status # "Running"
          /\ IF status = "Err"
             THEN /\ ln_reply' = NetErr(msg, "other")
                  /\ UNCHANGED <<ln_table, ln_proc>>
             ELSE IF msg.id = "Terminate"
             THEN /\ ln_reply' = ReplyOk(msg, "TerminateOk")
                  /\ UNCHANGED <<ln_table, ln_proc>>
             ELSE \E run_ok \in RunOutcomes :
                    IF run_ok
                    THEN /\ ln_proc' = [ln_proc EXCEPT ![NextServicePid] = "running"]
                         /\ ln_table' = ln_table \cup {NextServicePid}
                         /\ ln_reply' = ReplyOk(msg, "SpawnOk")
                    ELSE /\ ln_reply' = NetErr(msg, "other")
                         /\ UNCHANGED <<ln_table, ln_proc>>
    /\ ln_pc' = "reap"
    /\ UNCHANGED <<ln_exit, ln_sup, ln_rx, ln_spawns, ln_after>>
    /\ UNCHANGED lnOthers

LnReload_KillsAll ==
    /\ ln_pc = "reload"
    /\ ln_spawns < MaxRespawns
    /\ \E init_ok \in BOOLEAN :
          IF init_ok
          THEN /\ ln_after' = ln_after \cup {ln_sup}
               /\ ln_sup' = "running"
               /\ ln_rx' = <<>>
               /\ ln_spawns' = ln_spawns + 1
               /\ ln_pc' = "reap"
          ELSE UNCHANGED <<ln_pc, ln_sup, ln_rx, ln_spawns, ln_after>>
    /\ ln_proc' = kill_all(ln_table, ln_proc)
    /\ UNCHANGED <<ln_exit, ln_table, ln_reply>>
    /\ UNCHANGED lnOthers

\* Server::reload inside `while server.reload().is_err()`: the old
\* Supervisor is killed and waited for, init() spawns the next one and
\* replaces the channel; after a failed init() the loop tries again
LnReload ==
    /\ ln_pc = "reload"
    /\ ln_spawns < MaxRespawns
    /\ \E init_ok \in BOOLEAN :
          IF init_ok
          THEN /\ ln_after' = ln_after \cup {ln_sup}
               /\ ln_sup' = "running"
               /\ ln_rx' = <<>>
               /\ ln_spawns' = ln_spawns + 1
               /\ ln_pc' = "reap"
          ELSE UNCHANGED <<ln_pc, ln_sup, ln_rx, ln_spawns, ln_after>>
    /\ UNCHANGED <<ln_exit, ln_table, ln_proc, ln_reply>>
    /\ UNCHANGED lnOthers

\* the Supervisor sends a request over the IPC channel
LnSupSends ==
    /\ ln_pc \notin {"exited", "idle"}
    /\ ln_sup = "running"
    /\ Len(ln_rx) < MaxMsgs
    /\ \E msg \in Requests : ln_rx' = Append(ln_rx, msg)
    /\ UNCHANGED <<ln_pc, ln_exit, ln_sup, ln_table, ln_proc, ln_reply,
                   ln_spawns, ln_after>>
    /\ UNCHANGED lnOthers

\* the Supervisor process ends (sup main.rs: process::exit, or a signal)
LnSupExits ==
    /\ ln_pc \notin {"exited", "idle"}
    /\ ln_sup = "running"
    /\ \E status \in SupStatus : ln_sup' = status
    /\ UNCHANGED <<ln_pc, ln_exit, ln_rx, ln_table, ln_proc, ln_reply,
                   ln_spawns, ln_after>>
    /\ UNCHANGED lnOthers

\* a service process ends, by itself or after its shutdown signal; "lost"
\* is a process whose status somebody else collected, so that waitpid
\* fails for it.  A process that ignores the signal never takes this step.
LnServiceExits ==
    /\ ln_pc \notin {"exited", "idle"}
    /\ \E p \in ServicePids, end \in {"exited", "lost"} :
          /\ ln_proc[p] \in {"running", "stopping"}
          /\ ln_proc' = [ln_proc EXCEPT ![p] = end]
    /\ UNCHANGED <<ln_pc, ln_exit, ln_sup, ln_rx, ln_table, ln_reply,
                   ln_spawns, ln_after>>
    /\ UNCHANGED lnOthers

\* server::run after Server::new: the first Supervisor runs, no services
InitLauncher ==
    /\ ln_pc = "reap"
    /\ ln_exit = None
    /\ ln_sup = "running"
    /\ ln_rx = <<>>
    /\ ln_table = {}
    /\ ln_proc = [p \in ServicePids |-> "none"]
    /\ ln_reply = None
    /\ ln_spawns = 0
    /\ ln_after = {}
    /\ RecIdle /\ SupIdle /\ LockIdle /\ RunIdle /\ UpdIdle /\ DirIdle
    /\ WatchIdle /\ DelayIdle /\ StopIdle /\ RollIdle /\ TickIdle

NextLauncher ==
    \/ LnReap
    \/ LnSignal
    \/ LnHandleMessage
    \/ LnWait
    \/ LnReload
    \/ LnSupSends
    \/ LnSupExits
    \/ LnServiceExits

SpecLauncher == InitLauncher /\ [][NextLauncher]_vars

(***************************************************************************)
(* SpecWatcherDelay (manager/spec_watcher.rs): the debounce delay          *)
(***************************************************************************)
\* characters the value of the environment variable is made of
DelayChars == {"0", "3", "5", "6", "x"}

\* the values of the variable: every text of at most n characters
RECURSIVE DelayTexts(_)
DelayTexts(n) ==
    IF n = 0 THEN {<<>>}
    ELSE LET shorter == DelayTexts(n - 1)
         IN shorter \cup {Append(t, c) : t \in shorter, c \in DelayChars}

U16Max == 65535

\* s.parse::<u16>(): None for a text that is not a number of 16 bits
parse_u16(s) ==
    IF s = <<>> \/ \E i \in 1..Len(s) : ~IsDigit(s[i]) THEN None
    ELSE IF ParseDigits(s, 0) > U16Max THEN None
    ELSE Some(ParseDigits(s, 0))

\* Duration::from_millis / Duration::from_secs, as milliseconds
from_millis(n) == n

from_secs(n) == n * 1000

\* impl Default for SpecWatcherDelay
SpecWatcherDelayDefault == from_millis(2000)

\* impl FromStr for SpecWatcherDelay
SpecWatcherDelayFromStr(s) ==
    IF parse_u16(s) = None THEN None
    ELSE Some(from_secs(Unwrap(parse_u16(s))))

\* EnvConfig::configured_value: the parsed value of the variable, the
\* default when it is unset or does not parse
configured_value(env) ==
    IF env = None THEN SpecWatcherDelayDefault
    ELSE IF SpecWatcherDelayFromStr(Unwrap(env)) = None
         THEN SpecWatcherDelayDefault
    ELSE Unwrap(SpecWatcherDelayFromStr(Unwrap(env)))

\* SpecWatcher::run: let delay = SpecWatcherDelay::configured_value()
WdConfigure ==
    /\ wd_delay = None
    /\ wd_delay' = Some(configured_value(wd_env))
    /\ UNCHANGED wd_env
    /\ UNCHANGED delayOthers

\* the environment the Supervisor was started in
InitDelay ==
    /\ wd_env \in {None} \cup {Some(t) : t \in DelayTexts(MaxDelayChars)}
    /\ wd_delay = None
    /\ RecIdle /\ SupIdle /\ LockIdle /\ RunIdle /\ UpdIdle /\ DirIdle
    /\ WatchIdle /\ LnIdle /\ StopIdle /\ RollIdle /\ TickIdle

NextDelay == WdConfigure

SpecDelay == InitDelay /\ [][NextDelay]_vars

(***************************************************************************)
(* Launcher: stopping services (Process::kill, StoppingService,            *)
(* ServiceTable.shutting_down and handle_stopping_services)                *)
(***************************************************************************)
\* the svc_shutdown_timeout a Spawn message can carry, in clock ticks
ShutdownTimeout == 1

\* service::run: Some(timeout) if the message has one, else None
Timeouts == {None, Some(ShutdownTimeout)}

\* StoppingService::new(process, kill_time)
StoppingService(kill_time) == Some([kill_time |-> kill_time])

\* Process::kill: the kill time of the StoppingService it returns.  When
\* the shutdown signal cannot be sent it is Some(SteadyTime::now()).
kill_time(timeout, now, signal_ok) ==
    IF ~signal_ok THEN Some(now)
    ELSE IF timeout = None THEN None
    ELSE Some(now + Unwrap(timeout))

\* StoppingService.kill_time of a Pid in shutting_down
KillTimeOf(p) == Unwrap(st_killed[p]).kill_time

\* StoppingServices::i_like_my_butt: the services whose kill time has come
to_kill(map, now) ==
    {p \in map : KillTimeOf(p) # None /\ Unwrap(KillTimeOf(p)) <= now}

\* StoppingServices::i_like_my_butt: the others whose try_wait gave a status
stopped(map, now) ==
    {p \in map \ to_kill(map, now) : st_proc[p] = "exited"}

\* kill() on one live service, by a handler; the caller may hand the
\* StoppingService to register_stopping_service or drop it
StKill ==
    /\ st_launcher = "running"
    /\ \E p \in ServicePids, signal_ok \in BOOLEAN, registered \in BOOLEAN :
          /\ st_killed[p] = None
          /\ st_killed' = [st_killed EXCEPT ![p] =
                 StoppingService(kill_time(st_timeout[p], st_now, signal_ok))]
          /\ st_shutting_down' = IF registered THEN st_shutting_down \cup {p}
                                 ELSE st_shutting_down
    /\ UNCHANGED <<st_launcher, st_now, st_timeout, st_proc, st_selected,
                   st_hard_kills>>
    /\ UNCHANGED stopOthers

\* ServiceTable::kill_all at the Launcher's shutdown: kill() on every live
\* service, the StoppingService is dropped, and the Launcher exits
StKillAll ==
    /\ st_launcher = "running"
    /\ \E signal_ok \in [ServicePids -> BOOLEAN] :
          st_killed' = [p \in ServicePids |->
              IF st_killed[p] = None /\ st_proc[p] = "running"
              THEN StoppingService(kill_time(st_timeout[p], st_now, signal_ok[p]))
              ELSE st_killed[p]]
    /\ st_launcher' = "exited"
    /\ UNCHANGED <<st_now, st_timeout, st_proc, st_shutting_down, st_selected,
                   st_hard_kills>>
    /\ UNCHANGED stopOthers

\* ServiceTable::handle_stopping_services: both lists leave shutting_down;
\* the loops over to_kill and stopped have empty bodies
StHandleStoppingServices ==
    /\ st_launcher = "running"
    /\ st_shutting_down' = st_shutting_down
           \ (to_kill(st_shutting_down, st_now) \cup stopped(st_shutting_down, st_now))
    /\ st_selected' = st_selected \cup to_kill(st_shutting_down, st_now)
    /\ UNCHANGED <<st_launcher, st_now, st_timeout, st_proc, st_killed,
                   st_hard_kills>>
    /\ UNCHANGED stopOthers

\* time passes
StTick ==
    /\ st_now < MaxTime
    /\ st_now' = st_now + 1
    /\ UNCHANGED <<st_launcher, st_timeout, st_proc, st_killed,
                   st_shutting_down, st_selected, st_hard_kills>>
    /\ UNCHANGED stopOthers

\* a service process ends
StProcExits ==
    /\ \E p \in ServicePids :
          /\ st_proc[p] = "running"
          /\ st_proc' = [st_proc EXCEPT ![p] = "exited"]
    /\ UNCHANGED <<st_launcher, st_now, st_timeout, st_killed,
                   st_shutting_down, st_selected, st_hard_kills>>
    /\ UNCHANGED stopOthers

\* the services were spawned, each with or without a shutdown timeout
InitStopping ==
    /\ st_launcher = "running"
    /\ st_now = 0
    /\ st_timeout \in [ServicePids -> Timeouts]
    /\ st_proc = [p \in ServicePids |-> "running"]
    /\ st_killed = [p \in ServicePids |-> None]
    /\ st_shutting_down = {}
    /\ st_selected = {}
    /\ st_hard_kills = [p \in ServicePids |-> 0]
    /\ RecIdle /\ SupIdle /\ LockIdle /\ RunIdle /\ UpdIdle /\ DirIdle
    /\ WatchIdle /\ LnIdle /\ DelayIdle /\ RollIdle /\ TickIdle

NextStopping ==
    \/ StKill
    \/ StKillAll
    \/ StHandleStoppingServices
    \/ StTick
    \/ StProcExits

SpecStopping == InitStopping /\ [][NextStopping]_vars

(***************************************************************************)
(* The Rolling strategy across one service group: every member runs its    *)
(* own ServiceUpdater (manager/service_updater.rs) on the same census.     *)
(***************************************************************************)
MaxMembers == 3

MaxRelease == 2

Members == 1..MaxMembers

\* the releases of the package, ordered as PackageIdent orders them
Releases == 1..MaxRelease

\* u64::min_value() and u64::max_value(); only the order of the
\* suitabilities matters to the election, so the greatest one is written 1
u64_min_value == 0

u64_max_value == 1

\* a state that holds no Receiver<PackageInstall>
NoReceiver == [chan |-> "None", ident |-> 0, pkg |-> 0]

\* Worker::new(service).start(sg, ident): ident 0 is None, the Worker polls
\* (run_poll); otherwise it installs that release (run_once)
RollWorkerStart(ident) == [chan |-> "Empty", ident |-> ident, pkg |-> 0]

\* CensusGroup::previous_peer: the member before me in the list of the
\* group's members, the last one for the first; None for a lone member
previous_peer(me) ==
    IF MaxMembers <= 1 THEN None
    ELSE IF me = 1 THEN Some(MaxMembers) ELSE Some(me - 1)

RollResult(state, pkg, rx, suit) ==
    [state |-> state, pkg |-> pkg, rx |-> rx, suit |-> suit]

\* the check changed nothing (`return false` before any assignment)
RollSame(me) == RollResult(ro_state[me], ro_pkg[me], ro_rx[me], ro_suit[me])

\* arm Rolling(AwaitingElection) for member me: start_update_election
RollAwaitingElection(me) ==
    IF ro_topology = "Leader"
    THEN IF ro_leader = None THEN RollSame(me)
         ELSE LET suitability == IF me = Unwrap(ro_leader)
                                 THEN u64_min_value
                                 ELSE u64_max_value
              IN RollResult("InElection", ro_pkg[me], ro_rx[me], Some(suitability))
    ELSE RollResult("InElection", ro_pkg[me], ro_rx[me], Some(0))

\* arm Rolling(InElection)
RollInElection(me) ==
    IF ro_update_leader = None THEN RollSame(me)
    ELSE IF me = Unwrap(ro_update_leader)
         THEN RollResult("LeaderWaiting", ro_pkg[me], ro_rx[me], ro_suit[me])
         ELSE RollResult("FollowerWaiting", ro_pkg[me], ro_rx[me], ro_suit[me])

\* arm Leader, LeaderState::Polling(rx): Ok is update_package and Waiting
RollLeaderPolling(me) ==
    CASE ro_rx[me].chan = "Ready" ->
            RollResult("LeaderWaiting", ro_rx[me].pkg, NoReceiver, ro_suit[me])
      [] ro_rx[me].chan = "Disconnected" ->
            RollResult("LeaderPolling", ro_pkg[me], RollWorkerStart(0), ro_suit[me])
      [] OTHER -> RollSame(me)

\* arm Leader, LeaderState::Waiting
RollLeaderWaiting(me) ==
    IF \E cm \in Members : ro_pkg[cm] # ro_pkg[me] THEN RollSame(me)
    ELSE RollResult("LeaderPolling", ro_pkg[me], RollWorkerStart(0), ro_suit[me])

RollFollowerWaiting_IgnoresPeer(me) ==
    IF ro_update_leader = None \/ previous_peer(me) = None THEN RollSame(me)
    ELSE LET leader == Unwrap(ro_update_leader)
         IN IF ro_pkg[leader] = ro_pkg[me] THEN RollSame(me)
            ELSE RollResult("FollowerUpdating", ro_pkg[me],
                            RollWorkerStart(ro_pkg[leader]), ro_suit[me])

\* arm Follower, FollowerState::Waiting
RollFollowerWaiting(me) ==
    IF ro_update_leader = None \/ previous_peer(me) = None THEN RollSame(me)
    ELSE LET leader == Unwrap(ro_update_leader)
             peer == Unwrap(previous_peer(me))
         IN IF ro_pkg[leader] = ro_pkg[me] THEN RollSame(me)
            ELSE IF ro_pkg[leader] # ro_pkg[peer] THEN RollSame(me)
            ELSE RollResult("FollowerUpdating", ro_pkg[me],
                            RollWorkerStart(ro_pkg[leader]), ro_suit[me])

\* arm Follower, FollowerState::Updating(rx); the update leader of a
\* member that became a follower stays resolved, so the unwrap succeeds
RollFollowerUpdating(me) ==
    CASE ro_rx[me].chan = "Ready" ->
            RollResult("FollowerWaiting", ro_rx[me].pkg, NoReceiver, ro_suit[me])
      [] ro_rx[me].chan = "Disconnected" ->
            RollResult("FollowerUpdating", ro_pkg[me],
                       RollWorkerStart(ro_pkg[Unwrap(ro_update_leader)]),
                       ro_suit[me])
      [] OTHER -> RollSame(me)

\* check_for_updated_package of member me
RollCheckResult(me) ==
    CASE ro_state[me] = "AwaitingElection" -> RollAwaitingElection(me)
      [] ro_state[me] = "InElection" -> RollInElection(me)
      [] ro_state[me] = "LeaderPolling" -> RollLeaderPolling(me)
      [] ro_state[me] = "LeaderWaiting" -> RollLeaderWaiting(me)
      [] ro_state[me] = "FollowerWaiting" -> RollFollowerWaiting(me)
      [] ro_state[me] = "FollowerUpdating" -> RollFollowerUpdating(me)

\* one member's main loop calls check_for_updated_package
RollCheck ==
    /\ \E me \in Members :
          LET r == RollCheckResult(me)
          IN /\ ro_state' = [ro_state EXCEPT ![me] = r.state]
             /\ ro_pkg' = [ro_pkg EXCEPT ![me] = r.pkg]
             /\ ro_rx' = [ro_rx EXCEPT ![me] = r.rx]
             /\ ro_suit' = [ro_suit EXCEPT ![me] = r.suit]
    /\ UNCHANGED <<ro_topology, ro_leader, ro_update_leader, ro_depot>>
    /\ UNCHANGED rollOthers

\* the update election of the group resolves once every member has
\* entered it: a member of the greatest suitability becomes update leader
RollUpdateElection ==
    /\ ro_update_leader = None
    /\ \A m \in Members : ro_suit[m] # None
    /\ \E w \in Members :
          /\ \A m \in Members : Unwrap(ro_suit[m]) <= Unwrap(ro_suit[w])
          /\ ro_update_leader' = Some(w)
    /\ UNCHANGED <<ro_topology, ro_leader, ro_state, ro_pkg, ro_rx, ro_suit,
                   ro_depot>>
    /\ UNCHANGED rollOthers

\* the topology election of a Leader-topology group resolves
RollLeaderElection ==
    /\ ro_topology = "Leader"
    /\ ro_leader = None
    /\ \E l \in Members : ro_leader' = Some(l)
    /\ UNCHANGED <<ro_topology, ro_state, ro_pkg, ro_rx, ro_suit,
                   ro_update_leader, ro_depot>>
    /\ UNCHANGED rollOthers

\* Worker::run_poll sends the newest release if it is newer than the one
\* the service ran when the Worker started; Worker::run_once sends the
\* release it was started for
RollWorkerSends ==
    /\ \E me \in Members :
          /\ ro_rx[me].chan = "Empty"
          /\ IF ro_rx[me].ident = 0
             THEN /\ ro_pkg[me] < ro_depot
                  /\ ro_rx' = [ro_rx EXCEPT ![me] =
                                  [@ EXCEPT !.chan = "Ready", !.pkg = ro_depot]]
             ELSE ro_rx' = [ro_rx EXCEPT ![me] =
                               [@ EXCEPT !.chan = "Ready", !.pkg = ro_rx[me].ident]]
    /\ UNCHANGED <<ro_topology, ro_leader, ro_state, ro_pkg, ro_suit,
                   ro_update_leader, ro_depot>>
    /\ UNCHANGED rollOthers

\* a Worker thread dies before it sent anything
RollWorkerDies ==
    /\ \E me \in Members :
          /\ ro_rx[me].chan = "Empty"
          /\ ro_rx' = [ro_rx EXCEPT ![me] = [@ EXCEPT !.chan = "Disconnected"]]
    /\ UNCHANGED <<ro_topology, ro_leader, ro_state, ro_pkg, ro_suit,
                   ro_update_leader, ro_depot>>
    /\ UNCHANGED rollOthers

\* a newer release of the package is promoted to the channel
RollRelease ==
    /\ ro_depot < MaxRelease
    /\ ro_depot' = ro_depot + 1
    /\ UNCHANGED <<ro_topology, ro_leader, ro_state, ro_pkg, ro_rx, ro_suit,
                   ro_update_leader>>
    /\ UNCHANGED rollOthers

\* ServiceUpdater::add on every member: Rolling(AwaitingElection), all
\* members running the first release
InitRolling ==
    /\ ro_topology \in {"Standalone", "Leader"}
    /\ ro_leader = None
    /\ ro_state = [m \in Members |-> "AwaitingElection"]
    /\ ro_pkg = [m \in Members |-> 1]
    /\ ro_rx = [m \in Members |-> NoReceiver]
    /\ ro_suit = [m \in Members |-> None]
    /\ ro_update_leader = None
    /\ ro_depot = 1
    /\ RecIdle /\ SupIdle /\ LockIdle /\ RunIdle /\ UpdIdle /\ DirIdle
    /\ WatchIdle /\ LnIdle /\ DelayIdle /\ StopIdle /\ TickIdle

NextRolling ==
    \/ RollCheck
    \/ RollUpdateElection
    \/ RollLeaderElection
    \/ RollWorkerSends
    \/ RollWorkerDies
    \/ RollRelease

SpecRolling == InitRolling /\ [][NextRolling]_vars

(***************************************************************************)
(* The ticks of the main loop of Manager::run over a spec directory that   *)
(* keeps its content between ticks (no signal and no Supervisor update     *)
(* breaks the loop here; SpecRun has those).                               *)
(***************************************************************************)
MaxDiskChanges == 2

MaxUpdates == 1

\* the spec file of a name, as ServiceSpec::from_file reads it: None when
\* the directory has no such file
from_file(disk, name) ==
    IF \E s \in disk : s.ident.name = name
    THEN Some(CHOOSE s \in disk : s.ident.name = name)
    ELSE None

\* the loop of finish_restarting_services over the paths it swapped out
RECURSIVE ReloadFromDisk(_, _, _, _)
ReloadFromDisk(services, paths, disk, loaded) ==
    IF paths = <<>> THEN services
    ELSE LET spec == from_file(disk, Head(paths))
         IN ReloadFromDisk(
                IF spec = None THEN services
                ELSE add_service(services,
                                 [Unwrap(spec) EXCEPT !.desired_state = "Up"],
                                 Head(paths) \in loaded),
                Tail(paths), disk, loaded)

\* add_service for each added spec: self.updater.add(&service), which makes
\* an entry for the group of a service with an update strategy unless the
\* group has one
UpdaterAdd(updater, added) ==
    updater \cup {s.ident.name : s \in {sp \in added : sp.update_strategy # "None"}}

\* the specs finish_restarting_services reads for the paths it swapped out
Reloaded(paths, disk) ==
    {Unwrap(from_file(disk, paths[i])) :
        i \in {j \in DOMAIN paths : from_file(disk, paths[j]) # None}}

\* take_action_on_services with the spec directory as it is
TickReconcile(next_pc) ==
    LET ops == specs_to_operations(t_services, t_disk)
        fs == TakeActionFutures(t_services, ops, "loop")
        starts == {o.spec : o \in OpsToStart(ops)}
    IN /\ BagCardinality(t_futures) + BagCardinality(fs) <= MaxFutures
       /\ \E loaded \in SUBSET starts :
             /\ t_services' = TakeActionServices(t_services, ops, loaded)
             /\ t_failed' = (t_failed \/ loaded # starts)
             /\ t_updater' = UpdaterAdd(t_updater, loaded)
       /\ t_futures' = t_futures (+) fs
       /\ t_pc' = next_pc

\* run(): the first take_action_on_services, before the main loop
TickStartup ==
    /\ t_pc = "start"
    /\ TickReconcile("finish_restarting_services")
    /\ UNCHANGED <<t_disk, t_events, t_reload, t_changes, t_updates>>
    /\ UNCHANGED tickOthers

\* Manager::finish_restarting_services
TickFinishRestartingServices ==
    /\ t_pc = "finish_restarting_services"
    /\ \E loaded \in SUBSET {t_reload[i] : i \in DOMAIN t_reload} :
          /\ t_services' = ReloadFromDisk(t_services, t_reload, t_disk, loaded)
          /\ t_failed' = (t_failed \/ loaded # {t_reload[i] : i \in DOMAIN t_reload})
          /\ t_updater' = UpdaterAdd(t_updater,
                 {sp \in Reloaded(t_reload, t_disk) : sp.ident.name \in loaded})
    /\ t_reload' = <<>>
    /\ t_pc' = "take_action_on_services"
    /\ UNCHANGED <<t_disk, t_events, t_futures, t_changes, t_updates>>
    /\ UNCHANGED tickOthers

\* if self.spec_watcher.has_events() { take_action_on_services()? }
TickTakeAction ==
    /\ t_pc = "take_action_on_services"
    /\ IF t_events
       THEN /\ TickReconcile("shutdown_services_for_update")
            /\ t_events' = FALSE
       ELSE /\ t_pc' = "shutdown_services_for_update"
            /\ UNCHANGED <<t_events, t_services, t_futures, t_failed, t_updater>>
    /\ UNCHANGED <<t_disk, t_reload, t_changes, t_updates>>
    /\ UNCHANGED tickOthers

\* Manager::shutdown_services_for_update: the services the updater has a
\* new package for leave the map and get a restart future each
TickShutdownServicesForUpdate ==
    /\ t_pc = "shutdown_services_for_update"
    /\ \E to_restart \in SUBSET {s \in t_services : s.update_strategy # "None"} :
          /\ t_updates + Cardinality(to_restart) <= MaxUpdates
          /\ BagCardinality(t_futures) + Cardinality(to_restart) <= MaxFutures
          /\ t_services' = t_services \ to_restart
          /\ t_futures' = t_futures (+)
                SetToBag({Future("restart", svc, "loop") : svc \in to_restart})
          /\ t_updates' = t_updates + Cardinality(to_restart)
    /\ t_pc' = "finish_restarting_services"
    /\ UNCHANGED <<t_disk, t_events, t_reload, t_changes, t_failed, t_updater>>
    /\ UNCHANGED tickOthers

\* the runtime drives one spawned future to completion: stop_service
\* ends with updater.remove(&service), and a restart future then pushes
\* the path of its spec file
TickFutureResolves ==
    /\ t_pc # "start"
    /\ \E f \in BagToSet(t_futures) :
          /\ t_futures' = t_futures (-) SetToBag({f})
          /\ t_updater' = t_updater \ {f.svc.ident.name}
          /\ t_reload' = IF f.kind = "restart"
                            /\ RestartPushes(stop_service("Ok"))
                         THEN Append(t_reload, f.svc.ident.name)
                         ELSE t_reload
    /\ UNCHANGED <<t_pc, t_disk, t_events, t_services, t_changes, t_updates,
                   t_failed>>
    /\ UNCHANGED tickOthers

\* a spec file is written or removed; the SpecWatcher notices
TickDiskChanges ==
    /\ t_pc # "start"
    /\ t_changes < MaxDiskChanges
    /\ \E disk \in DiskInputs :
          /\ disk # t_disk
          /\ \E name \in PkgNames :
                {s \in disk : s.ident.name # name}
                    = {s \in t_disk : s.ident.name # name}
          /\ t_disk' = disk
    /\ t_events' = TRUE
    /\ t_changes' = t_changes + 1
    /\ UNCHANGED <<t_pc, t_services, t_futures, t_reload, t_updates, t_failed,
                   t_updater>>
    /\ UNCHANGED tickOthers

\* Manager::run before its first take_action_on_services
InitTick ==
    /\ t_pc = "start"
    /\ t_disk \in DiskInputs
    /\ t_events = FALSE
    /\ t_services = {}
    /\ t_futures = EmptyBag
    /\ t_reload = <<>>
    /\ t_changes = 0
    /\ t_updates = 0
    /\ t_failed = FALSE
    /\ t_updater = {}
    /\ RecIdle /\ SupIdle /\ LockIdle /\ RunIdle /\ UpdIdle /\ DirIdle
    /\ WatchIdle /\ LnIdle /\ DelayIdle /\ StopIdle /\ RollIdle

NextTick ==
    \/ TickStartup
    \/ TickFinishRestartingServices
    \/ TickTakeAction
    \/ TickShutdownServicesForUpdate
    \/ TickFutureResolves
    \/ TickDiskChanges

SpecTick == InitTick /\ [][NextTick]_vars

(***************************************************************************)
(* Properties of the reconciler (SpecOps)                                  *)
(***************************************************************************)
OpIdents(op) ==
    CASE op.op \in {"Start", "Stop"} -> {op.spec.ident}
      [] op.op = "Restart" -> {op.to_stop.ident, op.to_start.ident}
      [] OTHER -> {}

OpsOfIdent(ident) == {op \in operations : ident \in OpIdents(op)}

OpsOfName(n) == {op \in operations : \E i \in OpIdents(op) : i.name = n}

RunningIdents == {r.ident : r \in running}

\* C1 as stated: a running spec r and a disk spec d of the same identity
\* that differ in any field yield exactly one Restart{r, d} and nothing
\* else for that identity.
C1_RestartWhenModified ==
    rec_pc = "done" =>
        \A r \in running, d \in on_disk :
            (r.ident = d.ident /\ d # r) => OpsOfIdent(r.ident) = {Restart(r, d)}

\* C1 amended: a running spec r and a disk spec d with the same package
\* ident, where d has desired state Up and differs from r in some other
\* field, yield exactly one Restart{to_stop: r, to_start: d} and no Stop
\* or Start for that ident.
C1_RestartWhenUpAndModified ==
    rec_pc = "done" =>
        \A r \in running, d \in on_disk :
            (r.ident = d.ident /\ d.desired_state = "Up" /\ d # r)
                => OpsOfIdent(r.ident) = {Restart(r, d)}

C1_Witness ==
    /\ rec_pc = "done"
    /\ \E r \in running, d \in on_disk :
          /\ r.ident = d.ident /\ d.desired_state = "Up"
          /\ r.update_strategy # d.update_strategy
          /\ Restart(r, d) \in operations

\* C2: when the running specs and the on-disk specs are exactly the same
\* specs, the reconciler returns no operation.
C2_IdenticalSpecsNoOp ==
    (rec_pc = "done" /\ running = on_disk) => operations = {}

C2_Witness ==
    /\ rec_pc = "done"
    /\ running = on_disk
    /\ Cardinality(running) = 2
    /\ operations = {}

\* C3: specs of one package name are one service: for every package name
\* the result holds at most one operation, so never a Stop and a Start.
C3_OneOperationPerName ==
    rec_pc = "done" => \A n \in PkgNames : Cardinality(OpsOfName(n)) <= 1

\* C4: the call never fails; the Starts are exactly the Up disk specs with
\* no running spec of their ident, the Stops are exactly the running specs
\* whose ident is absent from disk or Down on disk, and a Stop carries the
\* running spec.
C4_StartsAndStops ==
    rec_pc = "done" =>
        /\ Unreachable \notin operations
        /\ {op \in operations : op.op = "Start"} =
             {Start(d) : d \in {x \in on_disk :
                 x.desired_state = "Up" /\ x.ident \notin RunningIdents}}
        /\ {op \in operations : op.op = "Stop"} =
             {Stop(r) : r \in {x \in running :
                 \/ \A d \in on_disk : d.ident # x.ident
                 \/ \E d \in on_disk :
                       d.ident = x.ident /\ d.desired_state = "Down"}}

C4_Witness ==
    /\ rec_pc = "done"
    /\ \E d \in on_disk : Start(d) \in operations
    /\ \E r \in running, d \in on_disk :
          /\ d.ident = r.ident /\ d.desired_state = "Down" /\ d # r
          /\ Stop(r) \in operations

\* C5: a disk spec that is Down and has no running spec of its ident
\* produces no operation, whatever else is running or on disk.
C5_DownAndAbsentNoOp ==
    rec_pc = "done" =>
        \A d \in on_disk :
            (d.desired_state = "Down" /\ d.ident \notin RunningIdents)
                => /\ OpsOfIdent(d.ident) = {}
                   /\ \A op \in operations :
                         op.op \in {"Start", "Stop"} => op.spec # d

C5_Witness ==
    /\ rec_pc = "done"
    /\ \E d \in on_disk :
          /\ d.desired_state = "Down"
          /\ \A r \in running : r.ident.name # d.ident.name
          /\ OpsOfName(d.ident.name) = {}
    /\ operations # {}

(***************************************************************************)
(* Properties of the Supervisor (SpecSup)                                  *)
(***************************************************************************)
\* C6: stop() with a tracked pid removes the pid file and leaves the state
\* Down, whether the Launcher's terminate succeeded or failed.
C6_StopAlwaysCleansUp ==
    (sup_last.call = "stop" /\ sup_last.had_pid # None)
        => (pid_file = None /\ sup_state = "Down")

C8_PidFileRoundTrip ==
    /\ (sup_last.call \in {"start", "restart"} /\ sup_last.result = "Ok")
          => /\ read_pid(pid_file).ok
             /\ Some(read_pid(pid_file).pid) = sup_pid
    /\ sup_last.call = "stop" => pid_file = None

(***************************************************************************)
(* Properties of the process lock (SpecLock)                               *)
(***************************************************************************)
LockHolders == {p \in Starters : lk_pc[p] = "held"}

\* C9: under any interleaving of Supervisor starts on one state directory
\* at most one live Supervisor holds the process lock; reclaiming a stale
\* lock never lets two starters both succeed.
C9_AtMostOneLockHolder == Cardinality(LockHolders) <= 1

(***************************************************************************)
(* Properties of Manager::run (SpecRun)                                    *)
(***************************************************************************)
PastShutdownOnIdle ==
    m_pc \in {"release_process_lock", "persist_data",
              "returned_ok", "returned_departed"}

StoppedAtShutdown(svc) ==
    \E r \in m_stopped :
        /\ r.kind = "stop"
        /\ r.svc = svc
        /\ r.spawned_by = "shutdown"
        /\ r.cleaned

\* C10: on a Normal or Departed shutdown every service that was live when
\* the loop broke got a stop future spawned on the runtime, and the lock is
\* released and the gossip state persisted only after every spawned future
\* has resolved.
C10_ShutdownStopsBeforeRelease ==
    (m_mode \in {Some("Normal"), Some("Departed")}
       /\ (PastShutdownOnIdle \/ ~m_lock \/ m_persisted))
    => /\ \A svc \in m_live_at_break : StoppedAtShutdown(svc)
       /\ BagToSet(m_futures) = {}
       /\ m_services = {}

C10_Witness ==
    /\ m_mode = Some("Departed")
    /\ m_pc = "returned_departed"
    /\ Cardinality(m_live_at_break) = 2
    /\ ~m_lock
    /\ m_persisted
    /\ \E r \in m_stopped : r.spawned_by = "loop"

\* C11: on an Updating shutdown every service that was running or
\* mid-restart (a restart future pending, or its spec path waiting in
\* specs_to_reload) when the loop broke is running when run() returns.
C11_UpdatingTearsDownNothing ==
    (m_mode = Some("Updating") /\ m_pc = "returned_ok")
    => /\ m_live_at_break \subseteq m_services
       /\ \A r \in m_stopped : r.kind # "restart"
       /\ m_reload = <<>>

\* C12: while the stop of a service being restarted has not completed
\* (its restart future is pending) the service is not re-added to
\* ManagerState.services.
C12_NoReAddBeforeStopCompletes ==
    \A f \in BagToSet(m_futures) :
        f.kind = "restart"
        => \A s \in m_services : s.ident.name # f.svc.ident.name

\* C13: the completion of a restart future pushes the spec path of its
\* service onto specs_to_reload exactly once, whatever service.stop() gave,
\* and nothing else ever adds to specs_to_reload.
C13_ExactlyOnePushPerRestart ==
    [][ /\ \A f \in BagToSet(m_futures) :
              (f.kind = "restart" /\ m_futures' = m_futures (-) SetToBag({f}))
              => m_reload' = Append(m_reload, f.svc.ident.name)
        /\ (m_reload' # m_reload /\ m_reload' # <<>>)
              => \E f \in BagToSet(m_futures) :
                    /\ f.kind = "restart"
                    /\ m_futures' = m_futures (-) SetToBag({f})
                    /\ m_reload' = Append(m_reload, f.svc.ident.name) ]_vars

C13_Witness ==
    /\ \E r \in m_stopped :
          /\ r.kind = "restart"
          /\ r.stop_result = "Err"
          /\ m_reload = <<r.svc.ident.name>>
    /\ \A r \in m_stopped : r.stop_result = "Err"

(***************************************************************************)
(* Properties of the ServiceUpdater (SpecUpd)                              *)
(***************************************************************************)
\* C14: when check_for_updated_package finds the channel of its state
\* (AtOnce, Leader Polling, Follower Updating) disconnected, it returns
\* false without a panic, and the state then holds a newly started worker
\* with the parameters of the one that died.
C14_DisconnectRespawnsWorker ==
    (u_last.call = "check" /\ HoldsChannel(u_last.from)
       /\ u_last.recv = "Disconnected")
    => /\ u_last.ret = "false"
       /\ u_state = u_last.from
       /\ u_worker # None
       /\ Unwrap(u_worker).id > Unwrap(u_last.worker).id
       /\ Unwrap(u_worker).ident = Unwrap(u_last.worker).ident

\* the census says it is the follower's turn: its previous peer reports
\* the package of the update leader
PredecessorUpgraded ==
    /\ u_census.group
    /\ u_census.update_leader # None
    /\ u_census.previous_peer # None
    /\ Unwrap(u_census.update_leader).pkg = Unwrap(u_census.previous_peer)

\* C15: a Rolling follower whose entry is not removed leaves Waiting only
\* for Updating and only when its previous peer reports the update
\* leader's package, Updating is entered from Waiting only, and so a
\* follower whose predecessor has not upgraded stays in Waiting.
C15_FollowerWaitsForPredecessor ==
    [][ /\ (u_state = "FollowerWaiting"
               /\ u_state' \notin {"FollowerWaiting", "absent"})
              => (u_state' = "FollowerUpdating" /\ PredecessorUpgraded)
        /\ (u_state # "FollowerUpdating" /\ u_state' = "FollowerUpdating")
              => u_state = "FollowerWaiting" ]_vars

C15_Witness ==
    /\ u_last.call = "check"
    /\ u_last.from = "FollowerWaiting"
    /\ u_state = "FollowerUpdating"
    /\ u_worker # None
    /\ Unwrap(u_worker).ident = Some("v2")
    /\ PredecessorUpgraded

(***************************************************************************)
(* Properties of SpecDir (SpecDirSpecs)                                    *)
(***************************************************************************)
\* the specs of the regular files that parse and are named after their
\* service, in directory order
RECURSIVE WellFormed(_, _)
WellFormed(files, stems) ==
    IF stems = <<>> THEN <<>>
    ELSE LET e == files[Head(stems)]
         IN (IF e.kind = "file" /\ Unwrap(e.from_file).ok
                /\ Unwrap(Unwrap(e.from_file).spec).ident.name = Head(stems)
             THEN <<Unwrap(Unwrap(e.from_file).spec)>> ELSE <<>>)
            \o WellFormed(files, Tail(stems))

\* C16: SpecDir::specs() returns Err only when listing the directory
\* failed; a file that cannot be parsed or read, or is misnamed, is
\* skipped, and every other well-formed spec is returned.
C16_SpecsFailsOnlyOnDirectoryError ==
    sd_result # None
    => /\ ~Unwrap(sd_result).ok
            => \E i \in DOMAIN Stems : sd_files[Stems[i]].kind = "glob_error"
       /\ Unwrap(sd_result).ok
            => Unwrap(sd_result).specs = WellFormed(sd_files, Stems)

(***************************************************************************)
(* Properties of the SpecWatcher (SpecWatch)                               *)
(***************************************************************************)
\* C17: has_events() returns true exactly when at least one filesystem
\* event was queued since the previous call, and it empties the queue, so
\* a call that follows with no new event in between returns false.  Every
\* step that is not the arrival of an event is a has_events() call.
C17_HasEventsDrains ==
    [][ sw_since' # sw_since + 1 =>
          /\ sw_last'.ret = (sw_since > 0)
          /\ sw_channel' = <<>>
          /\ (sw_since = 0 => ~sw_last'.ret) ]_vars

\* a call that found two queued events, returned true and left none
C17_Witness ==
    /\ sw_last.call = "has_events"
    /\ sw_last.ret
    /\ sw_last.drained = 2
    /\ sw_channel = <<>>
    /\ sw_since = 0

(***************************************************************************)
(* Properties of the Launcher Server (SpecLauncher)                        *)
(***************************************************************************)
\* C18: a Terminate or Restart request that names a Pid the Launcher does
\* not track is answered with a NetErr carrying the NoPID code, and the
\* service table (and every service process) is left as it was.
C18_UntrackedPidIsNoPID ==
    [][ ( /\ ln_pc = "message"
          /\ ln_pc' # "message"
          /\ ln_rx # <<>>
          /\ Head(ln_rx).id \in {"Terminate", "Restart"}
          /\ Head(ln_rx).pid \notin ln_table )
        => /\ ln_pc' = "reap"
           /\ ln_reply' = Some([msg |-> Head(ln_rx), reply |-> "NetErr",
                                code |-> "NoPID"])
           /\ ln_table' = ln_table
           /\ ln_proc' = ln_proc ]_vars

\* a Restart naming a Pid outside a non-empty table was answered NoPID
C18_Witness ==
    /\ ln_reply # None
    /\ Unwrap(ln_reply).msg.id = "Restart"
    /\ Unwrap(ln_reply).reply = "NetErr"
    /\ Unwrap(ln_reply).code = "NoPID"
    /\ Unwrap(ln_reply).msg.pid \notin ln_table
    /\ ln_table # {}
    /\ ln_pc = "reap"

C19_DepartedExitsNoRetry ==
    (m_mode = Some("Departed"))
    => /\ m_pc \in {"shutdown", "shutdown_on_idle", "release_process_lock",
                    "persist_data", "returned_departed", "exit_ERR_NO_RETRY"}
       /\ m_pc # "exit_0"

\* the process exited with the no-retry code after a Departed break that
\* found a live service
C19_Witness ==
    /\ m_mode = Some("Departed")
    /\ m_pc = "exit_ERR_NO_RETRY"
    /\ m_live_at_break # {}
    /\ ~m_lock

(***************************************************************************)
(* Further properties of the process lock (SpecLock)                       *)
(***************************************************************************)
\* C21: when the lock file exists but its content does not parse as a
\* number, acquiring the lock fails: the starter that read such a file
\* ends in a failed position and does not go on to take the lock.
C21_CorruptLockIsFatal ==
    [][ \A p \in Starters :
          ( /\ lk_pc[p] = "read"
            /\ lk_pc'[p] # "read"
            /\ lock_file # None
            /\ ParsePid(Unwrap(lock_file).content) = None )
          => lk_pc'[p] \in {"failed_io", "failed_locked"} ]_vars

(***************************************************************************)
(* Further properties of the ServiceUpdater (SpecUpd)                      *)
(***************************************************************************)
\* C22: an error while updating one group is confined to that group: the
\* check made for the group in a main-loop tick always returns to the loop
\* (with true or false), so the tick goes on to the other services.
C22_GroupErrorsAreConfined ==
    u_last.call = "check" => u_last.ret \in {"true", "false"}

(***************************************************************************)
(* Further properties of the Supervisor (SpecSup)                          *)
(***************************************************************************)
\* C23: when check_process() runs with no pid in memory and the pid file
\* exists, the pid is read from the file; if that process is alive the
\* Supervisor tracks that pid and is Up, otherwise it is Down, tracks no
\* pid and the pid file is removed.
C23_CheckProcessRecoversPid ==
    [][ (sup_last'.call = "check_process" /\ sup_pid = None /\ pid_file # None)
        => IF read_pid(pid_file).ok /\ is_alive(read_pid(pid_file).pid)
           THEN /\ sup_pid' = Some(read_pid(pid_file).pid)
                /\ sup_state' = "Up"
           ELSE /\ sup_pid' = None
                /\ sup_state' = "Down"
                /\ pid_file' = None ]_vars

(***************************************************************************)
(* Properties of SpecWatcherDelay (SpecDelay)                              *)
(***************************************************************************)
\* C24: the debounce delay is 2000 ms when no override is set, and a
\* numeric override N in the environment gives a delay of N milliseconds.
C24_DelayIsOverrideInMs ==
    wd_delay # None
    => /\ wd_env = None => Unwrap(wd_delay) = 2000
       /\ (wd_env # None /\ ParsePid(Unwrap(wd_env)) # None)
             => Unwrap(wd_delay) = Unwrap(ParsePid(Unwrap(wd_env)))

(***************************************************************************)
(* Further properties of the Launcher Server (SpecLauncher)                *)
(***************************************************************************)
\* C26: handling a Terminate or Restart request never blocks the control
\* loop on the exit of the service: the Launcher is never inside a handler
\* waiting for a process that has not ended.
C26_HandlersNeverBlock ==
    ln_pc = "wait" => wait(ln_proc[Unwrap(ln_reply).msg.pid]) # "Running"

\* C28: after each reap pass no Pid whose try_wait reported an exit or an
\* error is left in the live set, and every Pid whose try_wait reported a
\* running process is still in it.
C28_ReapPassKeepsExactlyTheLiving ==
    [][ (ln_pc = "reap" /\ ln_pc' = "signal")
        => /\ \A p \in ln_table :
                /\ try_wait(ln_proc[p]) \in {"Exited", "Err"} => p \notin ln_table'
                /\ try_wait(ln_proc[p]) = "Running" => p \in ln_table'
           /\ ln_table' \subseteq ln_table ]_vars

\* after a reap pass: a process that cannot be waited for has left the
\* table (no Restart removed it) and a running one is still in it
C28_Witness ==
    /\ ln_pc = "signal"
    /\ ln_reply # None
    /\ Unwrap(ln_reply).msg.id = "Spawn"
    /\ \E p \in ServicePids : ln_proc[p] = "lost" /\ p \notin ln_table
    /\ \E q \in ln_table : ln_proc[q] = "running"

(***************************************************************************)
(* Properties of the Launcher's stopping services (SpecStopping)           *)
(***************************************************************************)
\* C25: every stopping service whose kill time has passed while its
\* process has not exited has been sent a hard kill exactly once, whether
\* a handler or the Launcher's own shutdown stopped it, and no service is
\* sent a hard kill twice.  A service still waiting in shutting_down for
\* the next pass is not counted.
C25_HardKillExactlyOnce ==
    \A p \in ServicePids :
        /\ st_hard_kills[p] <= 1
        /\ ( /\ st_killed[p] # None
             /\ KillTimeOf(p) # None
             /\ Unwrap(KillTimeOf(p)) < st_now
             /\ st_proc[p] = "running"
             /\ p \notin st_shutting_down )
           => st_hard_kills[p] = 1

\* C27: a service spawned with no shutdown timeout gets no kill time when
\* it is asked to stop, and no pass over shutting_down selects it for a
\* forced kill.
C27_NoTimeoutNoForcedKill ==
    \A p \in ServicePids :
        (st_timeout[p] = None /\ st_killed[p] # None)
        => /\ KillTimeOf(p) = None
           /\ p \notin st_selected

\* C30: a check of an update leader in Waiting starts a Worker and moves to
\* Polling only if every member of the group reports the package of me();
\* if a member reports another package the check leaves the state Waiting,
\* starts no Worker and returns false.
C30_LeaderPollsOnlyWhenAllAgree ==
    [][ (u_state = "LeaderWaiting" /\ u_census' = u_census
            /\ u_last'.call = "check" /\ u_last'.from = "LeaderWaiting")
        => /\ u_state' = "LeaderPolling"
                => /\ u_census.group
                   /\ u_census.me # None
                   /\ u_census.members = "agree"
                   /\ Spawned(u_worker')
           /\ (u_census.group /\ u_census.me # None
                  /\ u_census.members = "differ")
                => /\ u_state' = "LeaderWaiting"
                   /\ u_worker' = None
                   /\ u_spawns' = u_spawns
                   /\ u_last'.ret = "false" ]_vars

\* an update leader that was Waiting has started to poll, all members agreeing
C30_Witness ==
    /\ u_last.call = "check"
    /\ u_last.from = "LeaderWaiting"
    /\ u_state = "LeaderPolling"
    /\ u_worker # None
    /\ u_census.group
    /\ u_census.members = "agree"

(***************************************************************************)
(* Properties of the Rolling strategy across a group (SpecRolling)         *)
(***************************************************************************)
\* C29: in a Leader-topology group the topology leader is the last member
\* to upgrade: it never runs a newer release than another member of its
\* group.
C29_TopologyLeaderUpgradesLast ==
    (ro_topology = "Leader" /\ ro_leader # None)
        => \A m \in Members : ro_pkg[Unwrap(ro_leader)] <= ro_pkg[m]

\* a check of the group taken in InElection, reading the census as it is
InElectionCheck ==
    /\ u_state = "InElection"
    /\ u_census' = u_census
    /\ u_last'.call = "check"
    /\ u_last'.from = "InElection"

\* C31 as stated: a check in InElection stays in InElection and returns
\* false while the census names no update leader; once it names one the
\* state becomes Leader(Waiting) if this member is that leader and
\* Follower(Waiting) otherwise.
C31_ElectionResolvedMeansRole ==
    [][ InElectionCheck
        => IF u_census.update_leader = None
           THEN u_state' = "InElection" /\ u_last'.ret = "false"
           ELSE IF Unwrap(u_census.update_leader).is_me
                THEN u_state' = "LeaderWaiting"
                ELSE u_state' = "FollowerWaiting" ]_vars

\* C31, amended: a check in InElection stays in InElection and returns
\* false while the census names no update leader or does not know this
\* member; once it names both, the state becomes Leader(Waiting) if this
\* member is that leader and Follower(Waiting) otherwise, and the check
\* still returns false.
C31_ElectionResolvedAndMeKnownMeansRole ==
    [][ InElectionCheck
        => /\ u_last'.ret = "false"
           /\ u_worker' = None
           /\ IF u_census.update_leader = None \/ u_census.me = None
              THEN u_state' = "InElection"
              ELSE IF Unwrap(u_census.update_leader).is_me
                   THEN u_state' = "LeaderWaiting"
                   ELSE u_state' = "FollowerWaiting" ]_vars

\* an updater that was InElection has become the update leader
C31_Witness ==
    /\ u_last.call = "check"
    /\ u_last.from = "InElection"
    /\ u_state = "LeaderWaiting"
    /\ u_census.update_leader # None
    /\ Unwrap(u_census.update_leader).is_me

\* C32: the entry of the group changes state only when add() creates it
\* for an untracked group, when remove() drops it, or in a check that
\* either received a package on the worker channel or read a census that
\* has the group; add() for a tracked group changes neither the entry nor
\* the number of Workers started.
C32_EntryChangesOnlyOnReceiptOrCensus ==
    [][ /\ u_state' # u_state
            => \/ u_last'.call = "add" /\ u_state = "absent"
               \/ u_last'.call = "remove" /\ u_state' = "absent"
               \/ /\ u_last'.call = "check"
                  /\ u_census' = u_census
                  /\ IF HoldsChannel(u_state)
                     THEN try_recv(u_worker) = "Ok"
                     ELSE u_census.group
        /\ (u_spawns' # u_spawns /\ u_last'.call = "add")
            => u_state = "absent" ]_vars

\* add() was called for a group that already had an entry holding a
\* Receiver, and the entry is as it was
C32_Witness ==
    /\ u_last.call = "add"
    /\ u_last.from = "FollowerUpdating"
    /\ u_last.ret = "true"
    /\ u_state = "FollowerUpdating"
    /\ u_worker = u_last.worker
    /\ u_worker # None

(***************************************************************************)
(* Further properties of Manager::run (SpecRun)                            *)
(***************************************************************************)
\* C33: a step in which a spawned stop or restart future resolves leaves
\* the live-service map as it was: only the steps of the main loop insert
\* into it or remove from it.
C33_FuturesNeverWriteServices ==
    [][ BagCardinality(m_futures') < BagCardinality(m_futures)
        => m_services' = m_services ]_vars

\* a restart future has resolved while the main loop was still ticking
\* with a service in the map: its path is queued, the map was not touched
C33_Witness ==
    /\ m_mode = None
    /\ m_reload # <<>>
    /\ m_services # {}
    /\ m_pc \notin {"idle", "start"}

TickQuiescent ==
    /\ t_pc = "finish_restarting_services"
    /\ ~t_events
    /\ t_futures = EmptyBag
    /\ t_reload = <<>>

\* C35: once the spec directory has stopped changing and nothing is
\* pending, the running services are the on-disk specs with desired state
\* Up, each with its on-disk spec (no service having failed to load).
C35_QuiescentMeansConverged ==
    (TickQuiescent /\ ~t_failed)
        => t_services = {s \in t_disk : s.desired_state = "Up"}

\* the services that are mid-restart: taken out of the map by a restart
\* whose stop has not resolved yet, or whose spec path waits in
\* specs_to_reload
MidRestart ==
    {f.svc.ident.name : f \in {g \in BagToSet(t_futures) : g.kind = "restart"}}
        \cup {t_reload[i] : i \in DOMAIN t_reload}

\* C36: a service that is mid-restart is not in the service map: nothing
\* adds it before finish_restarting_services processes its reload.
C36_MidRestartIsNotAdded ==
    \A s \in t_services : s.ident.name \notin MidRestart

\* C37: a service that is in the service map and has an update strategy
\* has the ServiceUpdater entry add_service made for its group: the stop
\* of an older instance, resolving later, has not removed it.
C37_StopOfOldKeepsUpdaterOfNew ==
    \A s \in t_services : s.update_strategy # "None" => s.ident.name \in t_updater

(***************************************************************************)
(* Further properties of the Rolling strategy across a group (SpecRolling) *)
(***************************************************************************)
\* the followers whose state is FollowerState::Updating
Updating == {m \in Members : ro_state[m] = "FollowerUpdating"}

C39_RespawnKeepsServices ==
    [][ /\ ( /\ ln_pc = "message"
             /\ ln_pc' # ln_pc
             /\ ln_rx = <<>>
             /\ ln_sup = "other" )
           => /\ ln_pc' = "reload"
              /\ ln_exit' = None
              /\ ln_table' = ln_table
              /\ ln_proc' = ln_proc
        /\ ln_spawns' # ln_spawns
           => /\ ln_sup' = "running"
              /\ ln_table' = ln_table
              /\ ln_proc' = ln_proc ]_vars

\* the Supervisor exited with an ordinary code and was respawned; two
\* services are still tracked and running
C39_Witness ==
    /\ ln_spawns = 1
    /\ ln_after = {"other"}
    /\ ln_sup = "running"
    /\ ln_exit = None
    /\ \E p, q \in ln_table :
          p # q /\ ln_proc[p] = "running" /\ ln_proc[q] = "running"

(***************************************************************************)
(* Further properties of Manager::run (SpecRun)                            *)
(***************************************************************************)

\* C40: whenever Manager::run has returned, with Ok, with Error::Departed
\* or with an error propagated by `?` out of a main-loop tick, the process
\* lock file has been removed
C40_EveryReturnReleasesLock ==
    m_pc \in {"returned_ok", "returned_departed", "failed"} => ~m_lock

====
